---------------------------- MODULE Spec2Model ----------------------------
(***************************************************************************)
(* yt-cli: transcript acquisition and indexing pipeline.                   *)
(*                                                                         *)
(*   - the Search Index (src/src/database.rs): the transcripts table with  *)
(*     its AUTOINCREMENT rowid and UNIQUE video_id, and the FTS5 shadow    *)
(*     table transcripts_fts;                                              *)
(*   - the Reindexer (src/src/commands/reindex.rs): the depth-first walk   *)
(*     of the transcript root;                                             *)
(*   - the Transcription Job Client (src/src/transcriber.rs): upload,      *)
(*     create, poll.                                                       *)
(*                                                                         *)
(* Each component has its own specification (SpecDb, SpecReindex, SpecTx)  *)
(* over the same variables; a component's actions leave the variables of   *)
(* the other components unchanged.                                         *)
(***************************************************************************)
EXTENDS Integers, Sequences, FiniteSets, TLC

VARIABLES
    rows,          \* transcripts table: rowid (column id) -> row
    fts,           \* transcripts_fts: rowid -> indexed columns
    seq,           \* sqlite_sequence entry of transcripts (AUTOINCREMENT)
    wpc,           \* per writer: position inside add_transcript
    wmeta,         \* per writer: the TranscriptMetadata of the running call
    wid,           \* per writer: conn.last_insert_rowid()
    latest,        \* history: video_id -> metadata of its latest upsert, None once deleted
    replaced,      \* history: video ids whose latest upsert replaced a row of other values
    everCrashed,   \* history: some add_transcript stopped between its two statements
    dret,          \* delete_transcript: the video id and the value of the last call
    fsTj,          \* storage: directory -> state of its transcript.json
    fsMj,          \* storage: directory -> state of its metadata.json
    rpc,           \* reindex: position of commands::reindex::run
    rstack,        \* reindex: recursion stack of reindex_recursive (sets of entries left)
    rcount,        \* reindex: the count of run
    rdone,         \* history: units whose reindex_single returned Ok
    rfailed,       \* history: units whose reindex_single returned Err
    tphase,        \* transcribe: phase of the call
    tlog,          \* history: the requests sent, in order
    tresp,         \* the last response received
    upload_url,    \* transcribe: result of upload_file
    transcript_id, \* transcribe: result of create_transcript
    tresult,       \* transcribe: the value returned to the caller
    fsAu,          \* storage: directory -> audio.mp3 exists
    fsMd,          \* storage: directory -> transcript.md exists
    fsRoot,        \* storage: the data, transcripts and .downloads directories exist
    lres,          \* list_transcripts: the value of the last call, None before it
    ckey,          \* environment: ASSEMBLYAI_API_KEY is set
    curl,          \* transcribe command: the argument url
    cpc,           \* transcribe command: the last step of run that completed
    cend,          \* transcribe command: how run ended, None while it runs
    cdl,           \* history: download_audio was called
    cmeta,         \* transcribe command: the VideoMetadata download_audio returned
    cdir,          \* transcribe command: storage_path
    tcols,         \* index file: the columns of table transcripts, {} without the table
    fcols,         \* index file: the columns of transcripts_fts, {} without the table
    tnew,          \* index file: the rows of table transcripts_new, None without it
    mpc,           \* get_connection: the statement it is at, "closed" outside a call
    mres,          \* get_connection: how the last call ended, None before and during
    mold,          \* history: rows, fts and tcols when the last call started
    parg,          \* a function without state: the argument of the call
    pret,          \* a function without state: the value it returned, None before
    sname,         \* sanitize_filename: the argument name
    smax,          \* sanitize_filename: the argument max_length
    sout,          \* sanitize_filename: outcome of the call, None before it
    sagain         \* sanitize_filename: outcome of the call on its own result

dbVars == <<rows, fts, seq, wpc, wmeta, wid, latest, replaced, everCrashed, dret>>
fsVars == <<fsTj, fsMj, fsAu, fsMd, fsRoot>>
rxVars == <<rpc, rstack, rcount, rdone, rfailed>>
txVars == <<tphase, tlog, tresp, upload_url, transcript_id, tresult>>
snVars == <<sname, smax, sout, sagain>>
cmdVars == <<ckey, curl, cpc, cend, cdl, cmeta, cdir>>
migVars == <<tcols, fcols, tnew, mpc, mres, mold>>
pureVars == <<parg, pret>>
\* The variables of the components beyond the index, the tree, the reindexer
\* and the job client.
extVars == <<snVars, cmdVars, lres, migVars, pureVars>>
vars == <<dbVars, fsVars, rxVars, txVars, extVars>>

\* Option<T>: None is the empty set, Some(x) the singleton of x.
None == {}
Some(x) == {x}
Unwrap(o) == CHOOSE x \in o : TRUE

(***************************************************************************)
(* Bounds of the model.                                                    *)
(***************************************************************************)
MaxRowid == 4
MaxPolls == 3
MaxNameLen == 4

Min(a, b) == IF a < b THEN a ELSE b

SetMax(S) == IF S = {} THEN 0 ELSE CHOOSE x \in S : \A y \in S : y <= x

(***************************************************************************)
(* Search Index: src/src/database.rs                                       *)
(***************************************************************************)
VideoIds == {"v1", "v2"}

\* Token sequences stand for text: what the FTS5 tokenizer makes of a column.
Titles == {<<"a">>, <<"b">>}
Texts == {<<"a">>, <<"b", "a">>}

\* The TranscriptMetadata values the callers pass in.
Metas ==
    [video_id : VideoIds, title : Titles, channel : {<<"c">>}, platform : {"yt"},
     description : {None}, path : {<<"p">>}, transcript_text : Texts]

\* The columns of a transcripts row that add_transcript binds.
RowOf(meta) ==
    [video_id |-> meta.video_id, title |-> meta.title, channel |-> meta.channel,
     platform |-> meta.platform, description |-> meta.description,
     path |-> meta.path]

\* meta.description.unwrap_or("")
UnwrapOrEmpty(d) == IF d = None THEN <<>> ELSE Unwrap(d)

\* The columns of a transcripts_fts row that add_transcript binds.
FtsOf(meta) ==
    [title |-> meta.title, channel |-> meta.channel,
     description |-> UnwrapOrEmpty(meta.description),
     transcript_text |-> meta.transcript_text]

\* A rowid allocator without AUTOINCREMENT: one more than the largest rowid in use.
NextRowidNoAutoincrement(rs, sq) == SetMax(DOMAIN rs) + 1

\* id INTEGER PRIMARY KEY AUTOINCREMENT: one more than the largest rowid ever used.
NextRowid(rs, sq) == SetMax(DOMAIN rs \cup {sq}) + 1

\* The rowids of the rows holding video_id v.
IdsOf(rs, v) == {i \in DOMAIN rs : rs[i].video_id = v}

Restrict(f, S) == [x \in S |-> f[x]]

\* INSERT without conflict resolution that ignores the UNIQUE constraint.
InsertRowNoReplace(rs, sq, meta) ==
    LET id == NextRowid(rs, sq)
    IN  [i \in DOMAIN rs \cup {id} |-> IF i = id THEN RowOf(meta) ELSE rs[i]]

\* INSERT OR REPLACE INTO transcripts: video_id TEXT UNIQUE makes the statement
\* delete the conflicting row before it inserts the new one under a fresh rowid.
InsertOrReplaceRow(rs, sq, meta) ==
    LET kept == DOMAIN rs \ IdsOf(rs, meta.video_id)
        id   == NextRowid(Restrict(rs, kept), sq)
    IN  [i \in kept \cup {id} |-> IF i = id THEN RowOf(meta) ELSE rs[i]]

\* A last_insert_rowid() that answers the rowid of the row replaced, where the
\* statement replaced one.
LastInsertRowidOfReplaced(rs, sq, meta) ==
    IF IdsOf(rs, meta.video_id) # {} THEN CHOOSE i \in IdsOf(rs, meta.video_id) : TRUE
    ELSE NextRowid(rs, sq)

\* The rowid the statement above inserted: conn.last_insert_rowid().
LastInsertRowid(rs, sq, meta) ==
    NextRowid(Restrict(rs, DOMAIN rs \ IdsOf(rs, meta.video_id)), sq)

\* INSERT OR REPLACE INTO transcripts_fts(rowid, ...).
InsertOrReplaceFts(f, id, meta) ==
    [i \in DOMAIN f \cup {id} |-> IF i = id THEN FtsOf(meta) ELSE f[i]]

\* A DELETE FROM transcripts without its WHERE clause.
DeleteAllRows(rs, v) == Restrict(rs, {})

\* DELETE FROM transcripts WHERE video_id = ?
DeleteRows(rs, v) == Restrict(rs, DOMAIN rs \ IdsOf(rs, v))

\* conn.execute of the DELETE: the number of rows it changed.
DeleteChanges(rs, v) == Cardinality(IdsOf(rs, v))

\* get_transcript_by_id: the first row of the SELECT, or None.
get_transcript_by_id(v) ==
    IF IdsOf(rows, v) = {} THEN None
    ELSE LET i == CHOOSE i \in IdsOf(rows, v) : TRUE
         IN  Some([id |-> i, video_id |-> rows[i].video_id, title |-> rows[i].title,
                   channel |-> rows[i].channel, platform |-> rows[i].platform,
                   path |-> rows[i].path])

Writers == DOMAIN wpc

Quiescent == \A w \in Writers : wpc[w] = "idle"

\* add_transcript, first statement (auto-committed).
AddInsertRow(w, meta) ==
    /\ wpc[w] = "idle"
    /\ NextRowid(rows, seq) <= MaxRowid
    /\ rows' = InsertOrReplaceRow(rows, seq, meta)
    /\ wid' = [wid EXCEPT ![w] = LastInsertRowid(rows, seq, meta)]
    /\ seq' = wid'[w]
    /\ wmeta' = [wmeta EXCEPT ![w] = Some(meta)]
    /\ wpc' = [wpc EXCEPT ![w] = "row_written"]
    /\ latest' = [latest EXCEPT ![meta.video_id] = Some(meta)]
    /\ replaced' = IF get_transcript_by_id(meta.video_id) # None
                        /\ Unwrap(get_transcript_by_id(meta.video_id)).title # meta.title
                   THEN replaced \cup {meta.video_id}
                   ELSE replaced \ {meta.video_id}
    /\ dret' = None
    /\ UNCHANGED <<fts, everCrashed>>
    /\ UNCHANGED <<fsVars, extVars, rxVars, txVars>>

\* add_transcript, second statement (auto-committed), and return.
AddInsertFts(w) ==
    /\ wpc[w] = "row_written"
    /\ fts' = InsertOrReplaceFts(fts, wid[w], Unwrap(wmeta[w]))
    /\ wpc' = [wpc EXCEPT ![w] = "idle"]
    /\ UNCHANGED <<rows, seq, wmeta, wid, latest, replaced, everCrashed, dret>>
    /\ UNCHANGED <<fsVars, extVars, rxVars, txVars>>

\* add_transcript stops between its statements: the second execute fails and
\* `?` returns the error, or the process ends. No transaction spans the two.
AddStops(w) ==
    /\ wpc[w] = "row_written"
    /\ wpc' = [wpc EXCEPT ![w] = "idle"]
    /\ wmeta' = [wmeta EXCEPT ![w] = None]
    /\ wid' = [wid EXCEPT ![w] = 0]
    /\ everCrashed' = TRUE
    /\ UNCHANGED <<rows, fts, seq, latest, replaced, dret>>
    /\ UNCHANGED <<fsVars, extVars, rxVars, txVars>>

\* delete_transcript(video_id): Ok(changes > 0).
delete_transcript(v) ==
    /\ Quiescent
    /\ rows' = DeleteRows(rows, v)
    /\ dret' = Some([video_id |-> v, value |-> DeleteChanges(rows, v) > 0])
    /\ latest' = [latest EXCEPT ![v] = None]
    /\ replaced' = replaced \ {v}
    /\ UNCHANGED <<fts, seq, wpc, wmeta, wid, everCrashed>>
    /\ UNCHANGED <<fsVars, extVars, rxVars, txVars>>

\* A phrase of tokens occurs in a column.
Contains(col, phrase) ==
    /\ phrase # <<>>
    /\ \E i \in 1..Len(col) :
          /\ i + Len(phrase) - 1 <= Len(col)
          /\ SubSeq(col, i, i + Len(phrase) - 1) = phrase

\* transcripts_fts MATCH '"<query>"': the phrase occurs in one of the columns.
FtsMatch(f, phrase) ==
    \/ Contains(f.title, phrase)
    \/ Contains(f.channel, phrase)
    \/ Contains(f.description, phrase)
    \/ Contains(f.transcript_text, phrase)

\* The rows of the SELECT of search_transcripts before LIMIT:
\* transcripts_fts JOIN transcripts t ON transcripts_fts.rowid = t.id WHERE MATCH.
SearchHits(phrase) ==
    {[id |-> i, video_id |-> rows[i].video_id, title |-> rows[i].title,
      channel |-> rows[i].channel, platform |-> rows[i].platform,
      path |-> rows[i].path] :
        i \in {j \in DOMAIN fts \cap DOMAIN rows : FtsMatch(fts[j], phrase)}}

\* LIMIT ?2: a negative limit is no limit.
Limited(n, limit) == IF limit < 0 THEN n ELSE Min(n, limit)

\* search_transcripts(query, limit): the results it can return. The order
\* (ORDER BY rank) is the engine's; which hits survive LIMIT is left open.
search_transcripts(phrase, limit) ==
    {R \in SUBSET SearchHits(phrase) :
        Cardinality(R) = Limited(Cardinality(SearchHits(phrase)), limit)}

Queries == {<<"a">>, <<"b">>, <<"b", "a">>, <<>>}
Limits == {-1, 1, 20}

\* Directories are paths relative to transcripts_dir(); the root is <<>>.
Root == <<>>

\* The directories of the tree, laid out as <platform>/<channel>/<video id>.
Dirs ==
    {<<>>, <<"yt">>, <<"yt", "chA">>, <<"yt", "chA", "v1">>, <<"yt", "chA", "v2">>,
     <<"yt", "chB">>, <<"yt", "chB", "v1">>}

\* The directories that may hold a transcript.json.
UnitDirs ==
    {<<"yt", "chA">>, <<"yt", "chA", "v1">>, <<"yt", "chA", "v2">>,
     <<"yt", "chB", "v1">>}

\* fs::read_dir(d), entries that are directories.
Children(d) ==
    {e \in Dirs : Len(e) = Len(d) + 1 /\ SubSeq(e, 1, Len(d)) = d}

\* transcript.json: absent, readable and parsing as TranscriptData, or failing
\* in fs::read_to_string or serde_json::from_str.
TjStates == {"none", "ok", "corrupt"}

\* metadata.json: absent, failing to read or parse, or a JSON object whose
\* "id" is a string or is missing.
MjStates ==
    {[state |-> "none", id |-> None], [state |-> "corrupt", id |-> None]}
    \cup {[state |-> "ok", id |-> i] : i \in {None, Some("v1"), Some("v2")}}

\* The other components at rest.
IdleFs ==
    /\ fsTj = <<>> /\ fsMj = <<>> /\ fsAu = <<>> /\ fsMd = <<>> /\ fsRoot = FALSE

IdleRx ==
    /\ rpc = "idle" /\ rstack = <<>> /\ rcount = 0 /\ rdone = {} /\ rfailed = {}

IdleTx ==
    /\ tphase = "idle" /\ tlog = <<>> /\ tresp = None
    /\ upload_url = None /\ transcript_id = None /\ tresult = None

IdleSn == sname = <<>> /\ smax = 0 /\ sout = None /\ sagain = None

IdleCmd ==
    /\ ckey = FALSE /\ curl = "" /\ cpc = "idle" /\ cend = None
    /\ cdl = FALSE /\ cmeta = None /\ cdir = None

IdleMig ==
    /\ tcols = {} /\ fcols = {} /\ tnew = None
    /\ mpc = "closed" /\ mres = None /\ mold = None

IdlePure == parg = <<>> /\ pret = None

IdleExt == IdleSn /\ IdleCmd /\ lres = None /\ IdleMig /\ IdlePure

\* get_connection on a fresh data directory: init_tables creates empty tables.
DbEmpty ==
    /\ rows = <<>> /\ fts = <<>> /\ seq = 0
    /\ latest = [v \in VideoIds |-> None]
    /\ replaced = {}
    /\ everCrashed = FALSE
    /\ dret = None

OneWriter ==
    /\ wpc = [w \in {1} |-> "idle"]
    /\ wmeta = [w \in {1} |-> None]
    /\ wid = [w \in {1} |-> 0]

\* A transcripts tree holding the artifact set of one video.
OneStoredFs ==
    /\ fsTj = [d \in Dirs |-> IF d = <<"yt", "chA", "v1">> THEN "ok" ELSE "none"]
    /\ fsMj = [d \in Dirs |-> IF d = <<"yt", "chA", "v1">>
                               THEN [state |-> "ok", id |-> Some("v1")]
                               ELSE [state |-> "none", id |-> None]]
    /\ fsAu = [d \in Dirs |-> d = <<"yt", "chA", "v1">>]
    /\ fsMd = [d \in Dirs |-> d = <<"yt", "chA", "v1">>]
    /\ fsRoot = TRUE

InitDb == DbEmpty /\ OneWriter /\ OneStoredFs /\ IdleRx /\ IdleTx /\ IdleExt

NextDb ==
    \/ \E w \in Writers, meta \in Metas : AddInsertRow(w, meta)
    \/ \E w \in Writers : AddInsertFts(w)
    \/ \E w \in Writers : AddStops(w)
    \/ \E v \in VideoIds : delete_transcript(v)

SpecDb == InitDb /\ [][NextDb]_vars

(***************************************************************************)
(* Storage tree and Reindexer: src/src/commands/reindex.rs                 *)
(***************************************************************************)

\* path.file_name()
FileName(d) == IF d = <<>> THEN "" ELSE d[Len(d)]

\* The text of the TranscriptData in a readable transcript.json.
TextOfUnit(d) == <<"a">>

\* metadata.get(key) as a string: None when metadata.json is missing or does
\* not hold the key.
MetaGet(metadata, key) ==
    IF metadata.state = "ok" /\ key \in DOMAIN metadata THEN metadata[key] ELSE None

\* reindex_single: the result of reading the two files, Err before any index write.
ReadsFail(d) == fsTj[d] # "ok" \/ fsMj[d].state = "corrupt"

\* A reindex_single that takes the video id from the directory name only.
UnitMetaIgnoresMetadataId(d) ==
    LET metadata == fsMj[d]
        platform == IF Len(d) >= 1 THEN d[1] ELSE "unknown"
        channel  == IF Len(d) >= 2 THEN d[2] ELSE "Unknown"
        title    == IF MetaGet(metadata, "title") # None
                    THEN Unwrap(MetaGet(metadata, "title")) ELSE <<FileName(d)>>
        channel_from_meta == IF MetaGet(metadata, "channel") # None
                             THEN Unwrap(MetaGet(metadata, "channel")) ELSE channel
    IN  [video_id |-> FileName(d), title |-> title, channel |-> <<channel_from_meta>>,
         platform |-> platform, description |-> None, path |-> d,
         transcript_text |-> TextOfUnit(d)]

\* reindex_single: the values handed to add_transcript (the call passes them
\* positionally and passes no description; the fields are those of
\* TranscriptMetadata in database.rs).
UnitMeta(d) ==
    LET metadata == fsMj[d]
        platform == IF Len(d) >= 1 THEN d[1] ELSE "unknown"
        channel  == IF Len(d) >= 2 THEN d[2] ELSE "Unknown"
        video_id == IF MetaGet(metadata, "id") # None
                    THEN Unwrap(MetaGet(metadata, "id")) ELSE FileName(d)
        title    == IF MetaGet(metadata, "title") # None
                    THEN Unwrap(MetaGet(metadata, "title")) ELSE <<FileName(d)>>
        channel_from_meta == IF MetaGet(metadata, "channel") # None
                             THEN Unwrap(MetaGet(metadata, "channel")) ELSE channel
    IN  [video_id |-> video_id, title |-> title, channel |-> <<channel_from_meta>>,
         platform |-> platform, description |-> None, path |-> d,
         transcript_text |-> TextOfUnit(d)]

\* The outcomes of add_transcript inside reindex_single: both statements run,
\* the first execute fails, or the second execute fails.
DbOutcomes == {"ok", "fail_row", "fail_fts"}

\* add_transcript called from reindex_single, with the outcome of its statements.
AddTranscriptCall(meta, outcome) ==
    /\ rows' = IF outcome = "fail_row" THEN rows
               ELSE InsertOrReplaceRow(rows, seq, meta)
    /\ seq' = IF outcome = "fail_row" THEN seq
              ELSE LastInsertRowid(rows, seq, meta)
    /\ fts' = IF outcome = "ok"
              THEN InsertOrReplaceFts(fts, LastInsertRowid(rows, seq, meta), meta)
              ELSE fts
    /\ latest' = IF outcome = "fail_row" THEN latest
                 ELSE [latest EXCEPT ![meta.video_id] = Some(meta)]
    /\ replaced' = IF outcome = "fail_row" THEN replaced
                   ELSE IF get_transcript_by_id(meta.video_id) # None
                           /\ Unwrap(get_transcript_by_id(meta.video_id)).title # meta.title
                        THEN replaced \cup {meta.video_id}
                        ELSE replaced \ {meta.video_id}
    /\ everCrashed' = (everCrashed \/ outcome = "fail_fts")
    /\ dret' = None
    /\ UNCHANGED <<wpc, wmeta, wid>>

Top(st) == st[Len(st)]
Pop(st) == SubSeq(st, 1, Len(st) - 1)
SetTop(st, x) == [st EXCEPT ![Len(st)] = x]

\* A walk in which the error of reindex_single leaves reindex_recursive by `?`.
UnitErrReturnsErr(d) ==
    /\ rpc' = "failed"
    /\ rstack' = <<>>
    /\ rcount' = rcount

\* reindex_recursive on Err of reindex_single: eprintln, return Ok(()).
UnitErr(d) ==
    /\ rpc' = rpc
    /\ rstack' = SetTop(rstack, Top(rstack) \ {d})
    /\ rcount' = rcount

\* A walk that does not count the unit reindex_single indexed.
UnitOkNoCount(d) ==
    /\ rpc' = rpc
    /\ rstack' = SetTop(rstack, Top(rstack) \ {d})
    /\ rcount' = rcount

\* reindex_recursive on Ok of reindex_single: *count += 1, return Ok(()).
UnitOk(d) ==
    /\ rpc' = rpc
    /\ rstack' = SetTop(rstack, Top(rstack) \ {d})
    /\ rcount' = rcount + 1

\* commands::reindex::run up to the first call of reindex_recursive.
ReindexRun ==
    /\ rpc = "idle"
    /\ rpc' = "walking"
    /\ rstack' = <<{Root}>>
    /\ rcount' = 0
    /\ UNCHANGED <<rdone, rfailed>>
    /\ UNCHANGED <<dbVars, fsVars, extVars, txVars>>

\* reindex_recursive(d) for a directory holding transcript.json, whose files
\* fail to read or parse: reindex_single returns Err before the index is touched.
ReindexUnitUnreadable(d) ==
    /\ rpc = "walking" /\ rstack # <<>> /\ d \in Top(rstack)
    /\ fsTj[d] # "none"
    /\ ReadsFail(d)
    /\ UnitErr(d)
    /\ rfailed' = rfailed \cup {d}
    /\ UNCHANGED <<rdone>>
    /\ UNCHANGED <<dbVars, fsVars, extVars, txVars>>

\* reindex_recursive(d) for a directory holding transcript.json whose files
\* read: reindex_single calls add_transcript.
ReindexUnitIndexed(d, outcome) ==
    /\ rpc = "walking" /\ rstack # <<>> /\ d \in Top(rstack)
    /\ fsTj[d] # "none"
    /\ ~ReadsFail(d)
    /\ AddTranscriptCall(UnitMeta(d), outcome)
    /\ IF outcome = "ok"
       THEN UnitOk(d) /\ rdone' = rdone \cup {d} /\ rfailed' = rfailed
       ELSE UnitErr(d) /\ rfailed' = rfailed \cup {d} /\ rdone' = rdone
    /\ UNCHANGED <<fsVars, extVars, txVars>>

\* reindex_recursive(d) for a directory without transcript.json: the loop over
\* its subdirectories begins.
ReindexDescend(d) ==
    /\ rpc = "walking" /\ rstack # <<>> /\ d \in Top(rstack)
    /\ fsTj[d] = "none"
    /\ rstack' = Append(SetTop(rstack, Top(rstack) \ {d}), Children(d))
    /\ UNCHANGED <<rpc, rcount, rdone, rfailed>>
    /\ UNCHANGED <<dbVars, fsVars, extVars, txVars>>

\* reindex_recursive returns Ok(()) once its loop is over; the outermost return
\* lets run print the count and return Ok(()).
ReindexReturn ==
    /\ rpc = "walking" /\ rstack # <<>> /\ Top(rstack) = {}
    /\ rstack' = Pop(rstack)
    /\ rpc' = IF Len(rstack) = 1 THEN "done" ELSE rpc
    /\ UNCHANGED <<rcount, rdone, rfailed>>
    /\ UNCHANGED <<dbVars, fsVars, extVars, txVars>>

\* The storage trees reindex is run on.
InitFs ==
    /\ fsTj \in [Dirs -> TjStates]
    /\ \A d \in Dirs \ UnitDirs : fsTj[d] = "none"
    /\ fsMj \in [Dirs -> MjStates]
    /\ \A d \in Dirs : fsTj[d] = "none" => fsMj[d].state = "none"
    /\ fsAu = [d \in Dirs |-> fsTj[d] # "none"]
    /\ fsMd = [d \in Dirs |-> fsTj[d] # "none"]
    /\ fsRoot = TRUE

InitReindex == DbEmpty /\ OneWriter /\ InitFs /\ IdleRx /\ IdleTx /\ IdleExt

NextReindex ==
    \/ ReindexRun
    \/ \E d \in Dirs : ReindexUnitUnreadable(d)
    \/ \E d \in Dirs, outcome \in DbOutcomes : ReindexUnitIndexed(d, outcome)
    \/ \E d \in Dirs : ReindexDescend(d)
    \/ ReindexReturn

SpecReindex == InitReindex /\ [][NextReindex]_vars

(***************************************************************************)
(* Transcription Job Client: src/src/transcriber.rs                        *)
(***************************************************************************)

\* response.status().is_success()
IsSuccess(status) == status >= 200 /\ status < 300

\* An exchange: send() fails (net = "err"), or a response arrives with a status,
\* a body that response.text() reads (or fails to read: None) and that
\* response.json() decodes (or fails to decode: None).
Responses(jsons) ==
    {[net |-> "err", status |-> 0, text |-> None, json |-> None]}
    \cup [net : {"ok"}, status : {400, 500}, text : {None, Some("body")}, json : {None}]
    \cup [net : {"ok"}, status : {200}, text : {None}, json : {None} \cup {Some(j) : j \in jsons}]

\* UploadResponse
UploadJsons == [upload_url : {"u1"}]

\* TranscriptResponse of the job creation: the fields create_transcript reads.
JobIds == {"j1", "j2"}
CreateJsons == [id : JobIds]

\* TranscriptResponse of a status request: the fields poll_transcript reads.
PollStatuses == {"queued", "processing", "completed", "error", "paused"}
PollJsons ==
    [id : {"j1"}, status : PollStatuses, error : {None, Some("boom")},
     text : {None, Some("hi")}]

\* Result<T>: Ok(val), or Err of an error kind with its message.
Ok(v) == [ok |-> TRUE, again |-> FALSE, kind |-> "", msg |-> <<>>, val |-> Some(v)]
Err(kind, msg) == [ok |-> FALSE, again |-> FALSE, kind |-> kind, msg |-> msg, val |-> None]
\* The loop of poll_transcript goes round once more.
Again == [ok |-> TRUE, again |-> TRUE, kind |-> "", msg |-> <<>>, val |-> None]

\* response.text().await.unwrap_or_default()
TextOrDefault(t) == IF t = None THEN "" ELSE Unwrap(t)

\* An upload_file that does not look at the status of the response.
UploadResultIgnoresStatus(resp) ==
    IF resp.net = "err" THEN Err("Http", <<>>)
    ELSE IF resp.json = None THEN Err("Http", <<>>)
    ELSE Ok(Unwrap(resp.json).upload_url)

\* upload_file after send(): the value it returns.
UploadResult(resp) ==
    IF resp.net = "err" THEN Err("Http", <<>>)
    ELSE IF ~IsSuccess(resp.status)
    THEN Err("Transcription", <<"Upload failed", resp.status, TextOrDefault(resp.text)>>)
    ELSE IF resp.json = None THEN Err("Http", <<>>)
    ELSE Ok(Unwrap(resp.json).upload_url)

\* create_transcript after send(): the value it returns.
CreateResult(resp) ==
    IF resp.net = "err" THEN Err("Http", <<>>)
    ELSE IF ~IsSuccess(resp.status)
    THEN Err("Transcription",
             <<"Create transcript failed", resp.status, TextOrDefault(resp.text)>>)
    ELSE IF resp.json = None THEN Err("Http", <<>>)
    ELSE Ok(Unwrap(resp.json).id)

\* A match on the status that keeps polling on queued and processing only.
PollDecisionKnownOnly(status) ==
    IF status = "completed" THEN "completed"
    ELSE IF status \in {"queued", "processing"} THEN "retry"
    ELSE "error"

\* poll_transcript: match transcript.status.as_str().
PollDecision(status) ==
    IF status = "completed" THEN "completed"
    ELSE IF status = "error" THEN "error"
    ELSE "retry"

\* poll_transcript, one round of its loop after send().
PollResult(resp) ==
    IF resp.net = "err" THEN Err("Http", <<>>)
    ELSE IF ~IsSuccess(resp.status)
    THEN Err("Transcription", <<"Poll failed", resp.status, TextOrDefault(resp.text)>>)
    ELSE IF resp.json = None THEN Err("Http", <<>>)
    ELSE LET transcript == Unwrap(resp.json)
         IN  CASE PollDecision(transcript.status) = "completed" ->
                    Ok([id |-> transcript.id, text |-> TextOrDefault(transcript.text)])
               [] PollDecision(transcript.status) = "error" ->
                    Err("Transcription",
                        <<IF transcript.error = None THEN "Unknown error"
                          ELSE Unwrap(transcript.error)>>)
               [] OTHER -> Again

\* A transcribe that uploads again when upload_file returned Err.
PhaseAfterUploadRetries(res) == IF res.ok THEN "Created" ELSE "Uploading"

\* transcribe: self.upload_file(audio_path).await?
PhaseAfterUpload(res) == IF res.ok THEN "Created" ELSE "Failed"

\* transcribe: self.create_transcript(&upload_url).await?
PhaseAfterCreate(res) == IF res.ok THEN "Polling" ELSE "Failed"

\* A poll loop that submits the job again when it is still processing.
PhaseAfterPollRecreates(res) ==
    IF res.again THEN "Created" ELSE IF res.ok THEN "Completed" ELSE "Failed"

\* A poll loop with a maximum of polls: it fails at the second answer that
\* finds the job still running.
PhaseAfterPollGivesUp(res) ==
    IF res.again THEN (IF tlog[Len(tlog)].req = "poll" THEN "Failed" ELSE "Polling")
    ELSE IF res.ok THEN "Completed" ELSE "Failed"

\* poll_transcript: sleep and loop, or return.
PhaseAfterPoll(res) ==
    IF res.again THEN "Polling" ELSE IF res.ok THEN "Completed" ELSE "Failed"

Request(req, arg) == [req |-> req, arg |-> arg]

NumRequests(req) == Cardinality({i \in DOMAIN tlog : tlog[i].req = req})

\* The value transcribe returns once the phase is terminal.
Returned(phase, res) == IF phase \in {"Completed", "Failed"} THEN Some(res) ELSE None

\* transcribe is called.
Transcribe ==
    /\ tphase = "idle"
    /\ tphase' = "Uploading"
    /\ UNCHANGED <<tlog, tresp, upload_url, transcript_id, tresult>>
    /\ UNCHANGED <<dbVars, fsVars, extVars, rxVars>>

\* upload_file: tokio::fs::read fails, no request is sent.
UploadFileUnreadable ==
    /\ tphase = "Uploading"
    /\ tphase' = PhaseAfterUpload(Err("Io", <<>>))
    /\ tresult' = Returned(tphase', Err("Io", <<>>))
    /\ UNCHANGED <<tlog, tresp, upload_url, transcript_id>>
    /\ UNCHANGED <<dbVars, fsVars, extVars, rxVars>>

\* upload_file: POST /upload and its response.
UploadFile(resp) ==
    /\ tphase = "Uploading"
    /\ tlog' = Append(tlog, Request("upload", ""))
    /\ tresp' = Some(resp)
    /\ tphase' = PhaseAfterUpload(UploadResult(resp))
    /\ upload_url' = IF UploadResult(resp).ok THEN UploadResult(resp).val ELSE upload_url
    /\ tresult' = Returned(tphase', UploadResult(resp))
    /\ UNCHANGED <<transcript_id>>
    /\ UNCHANGED <<dbVars, fsVars, extVars, rxVars>>

\* create_transcript: POST /transcript and its response.
CreateTranscript(resp) ==
    /\ tphase = "Created"
    /\ tlog' = Append(tlog, Request("create", Unwrap(upload_url)))
    /\ tresp' = Some(resp)
    /\ tphase' = PhaseAfterCreate(CreateResult(resp))
    /\ transcript_id' = IF CreateResult(resp).ok THEN CreateResult(resp).val
                        ELSE transcript_id
    /\ tresult' = Returned(tphase', CreateResult(resp))
    /\ UNCHANGED <<upload_url>>
    /\ UNCHANGED <<dbVars, fsVars, extVars, rxVars>>

\* poll_transcript, one round: GET /transcript/{id}, its response, and either
\* the return or the 3 second sleep before the next round.
PollTranscript(resp) ==
    /\ tphase = "Polling"
    /\ NumRequests("poll") < MaxPolls
    /\ tlog' = Append(tlog, Request("poll", Unwrap(transcript_id)))
    /\ tresp' = Some(resp)
    /\ tphase' = PhaseAfterPoll(PollResult(resp))
    /\ tresult' = Returned(tphase', PollResult(resp))
    /\ UNCHANGED <<upload_url, transcript_id>>
    /\ UNCHANGED <<dbVars, fsVars, extVars, rxVars>>

InitTx == DbEmpty /\ OneWriter /\ IdleFs /\ IdleRx /\ IdleTx /\ IdleExt

NextTx ==
    \/ Transcribe
    \/ UploadFileUnreadable
    \/ \E resp \in Responses(UploadJsons) : UploadFile(resp)
    \/ \E resp \in Responses(CreateJsons) : CreateTranscript(resp)
    \/ \E resp \in Responses(PollJsons) : PollTranscript(resp)

SpecTx == InitTx /\ [][NextTx]_vars

\* poll_transcript, a round after the rounds the history records one by one:
\* the loop has no counter, so the round is the same; the history notes once,
\* as "polls", that further rounds followed.
PollTranscriptFurther(resp) ==
    /\ tphase = "Polling"
    /\ NumRequests("poll") >= MaxPolls
    /\ tlog' = IF tlog[Len(tlog)].req = "polls" THEN tlog
               ELSE Append(tlog, Request("polls", Unwrap(transcript_id)))
    /\ tresp' = Some(resp)
    /\ tphase' = PhaseAfterPoll(PollResult(resp))
    /\ tresult' = Returned(tphase', PollResult(resp))
    /\ UNCHANGED <<upload_url, transcript_id>>
    /\ UNCHANGED <<dbVars, fsVars, extVars, rxVars>>

\* One round of the loop of poll_transcript, whatever the answer.
PollRound ==
    \E resp \in Responses(PollJsons) :
        PollTranscript(resp) \/ PollTranscriptFurther(resp)

NextTxLive ==
    \/ Transcribe
    \/ UploadFileUnreadable
    \/ \E resp \in Responses(UploadJsons) : UploadFile(resp)
    \/ \E resp \in Responses(CreateJsons) : CreateTranscript(resp)
    \/ \E resp \in Responses(PollJsons) : PollTranscript(resp)
    \/ \E resp \in Responses(PollJsons) : PollTranscriptFurther(resp)

\* The client's scheduling: a round of the loop always ends (the sleep of 3 s
\* returns, and the Client's timeout of 300 s bounds send and json), so the
\* loop takes its next round as long as the call is polling.
SpecTxLive == InitTx /\ [][NextTxLive]_vars /\ WF_vars(PollRound)

(***************************************************************************)
(* Storage Layer, names: src/src/storage.rs                                *)
(***************************************************************************)

\* A string is a sequence of characters, a character a one-character string;
\* "U+00E9" stands for a character whose UTF-8 encoding has two bytes.
TwoByteChars == {"U+00E9"}

\* The characters of Regex [<>:"/\\|?*].
Forbidden == {"<", ">", ":", "\"", "/", "\\", "|", "?", "*"}

\* The characters of Regex [\s_]: white space and the underscore.
Blank == {" ", "\t", "\n", "_"}

\* The characters names are made of in the model.
Alphabet == {"a", "_", " ", "/", "U+00E9"}

RECURSIVE ByteLen(_)
\* str::len(): the length in bytes.
ByteLen(s) ==
    IF s = <<>> THEN 0
    ELSE (IF s[1] \in TwoByteChars THEN 2 ELSE 1) + ByteLen(Tail(s))

\* re.replace_all(name, "_")
ReplaceForbidden(s) == [i \in 1..Len(s) |-> IF s[i] \in Forbidden THEN "_" ELSE s[i]]

RECURSIVE TrimStart(_, _)
\* str::trim_start_matches
TrimStart(s, cs) ==
    IF s # <<>> /\ s[1] \in cs THEN TrimStart(Tail(s), cs) ELSE s

RECURSIVE TrimEnd(_, _)
\* str::trim_end_matches
TrimEnd(s, cs) ==
    IF s # <<>> /\ s[Len(s)] \in cs THEN TrimEnd(SubSeq(s, 1, Len(s) - 1), cs) ELSE s

RECURSIVE CollapseBlanks(_)
\* re_spaces.replace_all(&sanitized, "_"): every maximal run of [\s_] becomes "_".
CollapseBlanks(s) ==
    IF s = <<>> THEN <<>>
    ELSE IF s[1] \in Blank THEN <<"_">> \o CollapseBlanks(TrimStart(s, Blank))
    ELSE <<s[1]>> \o CollapseBlanks(Tail(s))

\* str::is_char_boundary(n): n bytes end a character of s.
IsCharBoundary(s, n) == \E k \in 0..Len(s) : ByteLen(SubSeq(s, 1, k)) = n

\* &s[..n] where n is a character boundary.
BytePrefix(s, n) ==
    SubSeq(s, 1, CHOOSE k \in 0..Len(s) : ByteLen(SubSeq(s, 1, k)) = n)

Untitled == <<"u", "n", "t", "i", "t", "l", "e", "d">>

\* The outcome of a call: a value, or the panic of the slice.
Value(v) == [panic |-> FALSE, val |-> v]
Panic == [panic |-> TRUE, val |-> <<>>]

\* sanitize_filename(name, max_length)
sanitize_filename(name, max_length) ==
    LET sanitized == TrimEnd(TrimStart(CollapseBlanks(ReplaceForbidden(name)),
                                       {"_", " "}), {"_", " "})
    IN  IF ByteLen(sanitized) > max_length /\ ~IsCharBoundary(sanitized, max_length)
        THEN Panic
        ELSE LET result == IF ByteLen(sanitized) > max_length
                           THEN TrimEnd(BytePrefix(sanitized, max_length), {"_"})
                           ELSE sanitized
             IN  Value(IF result = <<>> THEN Untitled ELSE result)

\* The names of at most n characters.
Names(n) == UNION {[1..k -> Alphabet] : k \in 0..n}

\* The values of max_length: every length up to one past that of "untitled".
MaxLengths == 0..(Len(Untitled) + 1)

\* A caller calls sanitize_filename(sname, smax).
Sanitize ==
    /\ sout = None
    /\ sout' = Some(sanitize_filename(sname, smax))
    /\ UNCHANGED <<sname, smax, sagain>>
    /\ UNCHANGED <<dbVars, fsVars, rxVars, txVars, cmdVars, lres, migVars, pureVars>>

\* A caller calls sanitize_filename on the value the first call returned.
SanitizeAgain ==
    /\ sout # None /\ ~Unwrap(sout).panic
    /\ sagain = None
    /\ sagain' = Some(sanitize_filename(Unwrap(sout).val, smax))
    /\ UNCHANGED <<sname, smax, sout>>
    /\ UNCHANGED <<dbVars, fsVars, rxVars, txVars, cmdVars, lres, migVars, pureVars>>

InitSanitize ==
    /\ DbEmpty /\ OneWriter /\ IdleFs /\ IdleRx /\ IdleTx /\ IdleCmd /\ lres = None
    /\ IdleMig
    /\ IdlePure
    /\ sname \in Names(MaxNameLen)
    /\ smax \in MaxLengths
    /\ sout = None /\ sagain = None

NextSanitize == Sanitize \/ SanitizeAgain

SpecSanitize == InitSanitize /\ [][NextSanitize]_vars

(***************************************************************************)
(* Strings: the std::str functions the Storage Layer and the index use     *)
(***************************************************************************)
\* Strings are sequences of characters.
UpperCase == <<"A", "B", "C", "D", "E", "F", "G", "H", "I", "J", "K", "L", "M", "N", "O", "P", "Q", "R", "S", "T", "U", "V", "W", "X", "Y", "Z">>
LowerCase == <<"a", "b", "c", "d", "e", "f", "g", "h", "i", "j", "k", "l", "m", "n", "o", "p", "q", "r", "s", "t", "u", "v", "w", "x", "y", "z">>

\* char::to_lowercase on the characters of the model.
LowerChar(c) ==
    IF \E i \in DOMAIN UpperCase : UpperCase[i] = c
    THEN LowerCase[CHOOSE i \in DOMAIN UpperCase : UpperCase[i] = c]
    ELSE c

\* str::to_lowercase
ToLower(s) == [i \in DOMAIN s |-> LowerChar(s[i])]

\* str::find(pat): the first position pat starts at, 0 when there is none.
Find(s, pat) ==
    LET at == {i \in 1..(Len(s) - Len(pat) + 1) : SubSeq(s, i, i + Len(pat) - 1) = pat}
    IN  IF at = {} THEN 0 ELSE CHOOSE i \in at : \A j \in at : i <= j

\* str::contains(pat)
StrContains(s, pat) == Find(s, pat) # 0

RECURSIVE Split(_, _)
\* str::split(pat): the pieces between the occurrences of pat, at least one.
Split(s, pat) ==
    IF Find(s, pat) = 0 THEN <<s>>
    ELSE <<SubSeq(s, 1, Find(s, pat) - 1)>>
         \o Split(SubSeq(s, Find(s, pat) + Len(pat), Len(s)), pat)

RECURSIVE TrimStartMatches(_, _)
\* str::trim_start_matches(pat): pat taken off the front as often as it is there.
TrimStartMatches(s, pat) ==
    IF Len(s) >= Len(pat) /\ SubSeq(s, 1, Len(pat)) = pat
    THEN TrimStartMatches(SubSeq(s, Len(pat) + 1, Len(s)), pat)
    ELSE s

\* The characters of the names of directories, channels and handles.
Spelling ==
    [n \in {"chA", "chA?", "chB", "v1", "v2", "yt", "transcripts", "data",
            "Econ", "@EconTV"} |->
        CASE n = "chA"  -> <<"c", "h", "A">>
          [] n = "chA?" -> <<"c", "h", "A", "?">>
          [] n = "chB"  -> <<"c", "h", "B">>
          [] n = "v1"   -> <<"v", "1">>
          [] n = "v2"   -> <<"v", "2">>
          [] n = "yt"   -> <<"y", "t">>
          [] n = "transcripts" -> <<"t", "r", "a", "n", "s", "c", "r", "i", "p", "t", "s">>
          [] n = "data" -> <<"d", "a", "t", "a">>
          [] n = "Econ" -> <<"E", "c", "o", "n">>
          [] n = "@EconTV" -> <<"@", "E", "c", "o", "n", "T", "V">>]

NameOf(chars) == CHOOSE n \in DOMAIN Spelling : Spelling[n] = chars

(***************************************************************************)
(* Storage Layer, listing: src/src/storage.rs                              *)
(***************************************************************************)
\* The file name of data_dir().join("transcripts").
TranscriptsDirName == "transcripts"

\* path.parent().and_then(|p| p.file_name()), k levels above path; the levels
\* above transcripts_dir() carry the name of the data directory.
AncestorName(path, k) ==
    IF Len(path) > k THEN path[Len(path) - k]
    ELSE IF Len(path) = k THEN TranscriptsDirName ELSE "data"

\* Ok(results) and Err: results is the Vec<TranscriptInfo>, in the order pushed.
Listed(results) == [ok |-> TRUE, results |-> results]
ListErr == [ok |-> FALSE, results |-> <<>>]

\* A listing that takes a directory without a readable metadata.json for an error.
LeafInfoRequiresMetadata(path) ==
    IF fsMj[path].state # "ok" THEN ListErr
    ELSE Listed(<<[path |-> path, title |-> FileName(path),
                   channel |-> AncestorName(path, 1), channel_handle |-> None,
                   platform |-> AncestorName(path, 2), duration |-> None,
                   upload_date |-> None, url |-> None]>>)

\* find_transcripts_recursive, the branch of a directory holding
\* transcript.json: the TranscriptInfo from the path, then the fields read from
\* metadata.json where it exists, reads and parses; results.push(info).
LeafInfo(path) ==
    LET metadata == fsMj[path]
        channel_name == MetaGet(metadata, "channel")
    IN  Listed(<<[path |-> path, title |-> FileName(path),
                  channel |-> IF channel_name # None THEN Unwrap(channel_name)
                              ELSE AncestorName(path, 1),
                  channel_handle |-> MetaGet(metadata, "uploader_id"),
                  platform |-> AncestorName(path, 2),
                  duration |-> MetaGet(metadata, "duration"),
                  upload_date |-> MetaGet(metadata, "upload_date"),
                  url |-> MetaGet(metadata, "url")]>>)

RECURSIVE InOrder(_)
\* fs::read_dir(path): the entries in the one order the model gives them.
InOrder(S) ==
    IF S = {} THEN <<>>
    ELSE LET e == CHOOSE x \in S : TRUE IN <<e>> \o InOrder(S \ {e})

RECURSIVE find_transcripts_recursive(_)
RECURSIVE WalkEntries(_)
\* A walk that pushes the entry of a directory holding transcript.json and
\* still descends into it.
find_transcripts_descending(path) ==
    LET below == WalkEntries(InOrder(Children(path)))
    IN  IF fsTj[path] # "none"
        THEN Listed(LeafInfo(path).results \o below.results)
        ELSE below

\* find_transcripts_recursive(path, results): the entries pushed, and Err where
\* a recursive call returns Err through `?`.  A directory holding
\* transcript.json pushes one entry and returns; any other is descended into.
find_transcripts_recursive(path) ==
    IF fsTj[path] # "none" THEN LeafInfo(path)
    ELSE WalkEntries(InOrder(Children(path)))

\* for entry in entries.flatten() { find_transcripts_recursive(&entry.path(), results)?; }
WalkEntries(entries) ==
    IF entries = <<>> THEN Listed(<<>>)
    ELSE LET first == find_transcripts_recursive(Head(entries))
         IN  IF ~first.ok THEN ListErr
             ELSE LET rest == WalkEntries(Tail(entries))
                  IN  IF ~rest.ok THEN ListErr
                      ELSE Listed(first.results \o rest.results)

\* results.retain(keep)
Retain(results, keep(_)) == SelectSeq(results, keep)

\* t.channel.to_lowercase().contains(&filter_lower), on the characters of the name.
ChannelContains(t, filter) ==
    StrContains(ToLower(Spelling[t.channel]), ToLower(filter))

\* t.channel_handle.as_ref().map(|h| h.to_lowercase().contains(..)).unwrap_or(false)
HandleContains(t, filter) ==
    /\ t.channel_handle # None
    /\ StrContains(ToLower(Spelling[Unwrap(t.channel_handle)]), ToLower(filter))

\* list_transcripts(platform, channel, handle): the platform chooses the
\* directory the walk starts in; the channel and handle filters are applied to
\* the entries found.
list_transcripts(platform, channel, handle) ==
    LET found ==
            IF ~fsRoot THEN Listed(<<>>)
            ELSE IF platform = None THEN find_transcripts_recursive(Root)
            ELSE IF <<Unwrap(platform)>> \notin Dirs THEN Listed(<<>>)
            ELSE find_transcripts_recursive(<<Unwrap(platform)>>)
        KeepChannel(t) == channel = None \/ ChannelContains(t, Unwrap(channel))
        KeepHandle(t) == handle = None \/ HandleContains(t, Unwrap(handle))
    IN  IF ~found.ok THEN ListErr
        ELSE Listed(Retain(Retain(found.results, KeepChannel), KeepHandle))

\* The list command calls list_transcripts; here without channel or handle.
ListTranscripts(platform) ==
    /\ lres' = Some(list_transcripts(platform, None, None))
    /\ UNCHANGED <<dbVars, fsVars, rxVars, txVars, snVars, cmdVars, migVars, pureVars>>

\* The list command with its three options; parg keeps the options given.
ListFiltered(platform, channel, handle) ==
    /\ lres = None
    /\ parg' = [platform |-> platform, channel |-> channel, handle |-> handle]
    /\ lres' = Some(list_transcripts(platform, channel, handle))
    /\ UNCHANGED <<dbVars, fsVars, rxVars, txVars, snVars, cmdVars, migVars, pret>>

\* metadata.json as the listing reads it: absent, failing to read or parse, an
\* object without the keys read, or an object holding channel and uploader_id.
ListMjStates ==
    {[state |-> "none", id |-> None], [state |-> "corrupt", id |-> None],
     [state |-> "ok", id |-> None, channel |-> None, uploader_id |-> None],
     [state |-> "ok", id |-> None, channel |-> Some("Econ"),
      uploader_id |-> Some("@EconTV")]}

\* The options of the list command: a platform with and without a directory,
\* and filters in a case other than that of the names.
ListPlatformArgs == {None, Some("yt"), Some("vimeo")}
ListChannelArgs == {None, Some(<<"e", "c", "o">>), Some(<<"C", "H">>)}
ListHandleArgs == {None, Some(<<"t", "v">>)}

\* Any tree under transcripts_dir(), or no transcripts_dir() at all; a
\* directory without transcript.json holds no metadata.json either, and the
\* files of one of the four directories are readable where they exist.
InitList ==
    /\ DbEmpty /\ OneWriter /\ IdleRx /\ IdleTx /\ IdleSn /\ IdleCmd /\ IdleMig
    /\ IdlePure /\ lres = None
    /\ fsRoot \in BOOLEAN
    /\ fsTj \in {[d \in Dirs |-> IF d \in UnitDirs /\ fsRoot THEN tj[d] ELSE "none"] :
                    tj \in [UnitDirs -> TjStates]}
    /\ fsMj \in {[d \in Dirs |-> IF fsTj[d] # "none" THEN mj[d]
                                 ELSE [state |-> "none", id |-> None]] :
                    mj \in [UnitDirs -> ListMjStates]}
    /\ fsTj[<<"yt", "chA", "v2">>] # "corrupt"
    /\ fsMj[<<"yt", "chA", "v2">>].state # "corrupt"
    /\ fsAu = [d \in Dirs |-> FALSE]
    /\ fsMd = [d \in Dirs |-> FALSE]

NextList ==
    \E platform \in ListPlatformArgs, channel \in ListChannelArgs,
       handle \in ListHandleArgs : ListFiltered(platform, channel, handle)

SpecList == InitList /\ [][NextList]_vars

(***************************************************************************)
(* Transcribe command: src/src/commands/transcribe.rs, src/src/config.rs   *)
(***************************************************************************)
\* The urls the command is run on, and get_platform_from_url of each as the
\* tree of the model writes it.
CmdUrls == {"https://youtube.com/watch?v=x"}
UrlPlatform == [u \in CmdUrls |-> "yt"]

\* The VideoMetadata values download_audio returns.
CmdMetas == [id : VideoIds, title : {<<"b">>}, channel : {"chA", "chA?"}]

\* The lengths create_storage_path cuts the channel and the video id to.
SafeChannelMax == 100
SafeVideoIdMax == 50

\* create_storage_path: the directory it creates and returns.
create_storage_path(platform, channel, video_id) ==
    LET safe_channel  == sanitize_filename(Spelling[channel], SafeChannelMax).val
        safe_video_id == sanitize_filename(Spelling[video_id], SafeVideoIdMax).val
    IN  <<platform, NameOf(safe_channel), NameOf(safe_video_id)>>

\* The text column as the tokenizer sees it.
Tokens(text) == IF text = "" THEN <<>> ELSE <<text>>

\* A run that writes the index row before metadata.json.
RunOrderIndexBeforeMetadata ==
    <<"validate_config", "ensure_directories", "download_audio", "AssemblyAI::new",
      "transcribe", "create_storage_path", "move_audio_file", "write_markdown",
      "write_json", "add_transcript", "save_metadata">>

\* A run that validates the configuration after the download.
RunOrderDownloadFirst ==
    <<"ensure_directories", "download_audio", "validate_config", "AssemblyAI::new",
      "transcribe", "create_storage_path", "move_audio_file", "write_markdown",
      "write_json", "save_metadata", "add_transcript">>

\* A run that creates its directory and moves the audio file before the
\* transcription job.
RunOrderStoreBeforeTranscribe ==
    <<"validate_config", "ensure_directories", "download_audio",
      "create_storage_path", "move_audio_file", "AssemblyAI::new", "transcribe",
      "write_markdown", "write_json", "save_metadata", "add_transcript">>

\* run: its calls in the order of the source; save_transcript is its two writes.
RunOrder ==
    <<"validate_config", "ensure_directories", "download_audio", "AssemblyAI::new",
      "transcribe", "create_storage_path", "move_audio_file", "write_markdown",
      "write_json", "save_metadata", "add_transcript">>

StepIndex(pc) ==
    IF pc = "idle" THEN 0 ELSE CHOOSE i \in 1..Len(RunOrder) : RunOrder[i] = pc

\* The call run makes after the call pc returned Ok.
NextStep(pc) ==
    IF StepIndex(pc) < Len(RunOrder) THEN RunOrder[StepIndex(pc) + 1] ELSE "return"

\* run is at the call named step.
CmdAt(step) == cend = None /\ NextStep(cpc) = step

\* The call returned Ok, or Err(kind) which `?` returns from run.
CmdStepDone(step, err) ==
    /\ cpc' = IF err = None THEN step ELSE cpc
    /\ cend' = err

\* The TranscriptMetadata run hands to add_transcript.
CmdRecord ==
    LET metadata == Unwrap(cmeta)
        transcript_data == Unwrap(Unwrap(tresult).val)
    IN  [video_id |-> metadata.id, title |-> metadata.title,
         channel |-> <<metadata.channel>>, platform |-> UrlPlatform[curl],
         description |-> None, path |-> Unwrap(cdir),
         transcript_text |-> Tokens(transcript_data.text)]

\* validate_config()?
CmdValidateConfig ==
    /\ CmdAt("validate_config")
    /\ CmdStepDone("validate_config", IF ckey THEN None ELSE Some("ApiKeyMissing"))
    /\ UNCHANGED <<ckey, curl, cdl, cmeta, cdir>>
    /\ UNCHANGED <<dbVars, fsVars, rxVars, txVars, snVars, lres, migVars, pureVars>>

\* ensure_directories()?
CmdEnsureDirectories(ok) ==
    /\ CmdAt("ensure_directories")
    /\ CmdStepDone("ensure_directories", IF ok THEN None ELSE Some("Io"))
    /\ fsRoot' = (fsRoot \/ ok)
    /\ UNCHANGED <<ckey, curl, cdl, cmeta, cdir>>
    /\ UNCHANGED <<fsTj, fsMj, fsAu, fsMd>>
    /\ UNCHANGED <<dbVars, rxVars, txVars, snVars, lres, migVars, pureVars>>

\* download_audio(url)?: the downloader runs after ensure_directories and
\* returns the metadata, or Err.
CmdDownloadAudio(res) ==
    /\ CmdAt("download_audio")
    /\ CmdStepDone("download_audio", IF res = None THEN Some("Download") ELSE None)
    /\ cdl' = TRUE
    /\ cmeta' = res
    /\ fsRoot' = TRUE
    /\ UNCHANGED <<ckey, curl, cdir>>
    /\ UNCHANGED <<fsTj, fsMj, fsAu, fsMd>>
    /\ UNCHANGED <<dbVars, rxVars, txVars, snVars, lres, migVars, pureVars>>

\* AssemblyAI::new()?
CmdNewClient ==
    /\ CmdAt("AssemblyAI::new")
    /\ CmdStepDone("AssemblyAI::new", IF ckey THEN None ELSE Some("ApiKeyMissing"))
    /\ UNCHANGED <<ckey, curl, cdl, cmeta, cdir>>
    /\ UNCHANGED <<dbVars, fsVars, rxVars, txVars, snVars, lres, migVars, pureVars>>

\* assemblyai.transcribe(&audio_file).await? once transcribe has returned.
CmdTranscribed ==
    /\ CmdAt("transcribe")
    /\ tresult # None
    /\ CmdStepDone("transcribe", IF Unwrap(tresult).ok THEN None
                                 ELSE Some(Unwrap(tresult).kind))
    /\ UNCHANGED <<ckey, curl, cdl, cmeta, cdir>>
    /\ UNCHANGED <<dbVars, fsVars, rxVars, txVars, snVars, lres, migVars, pureVars>>

\* create_storage_path(&platform, &metadata.channel, &metadata.id)?
CmdCreateStoragePath(ok) ==
    /\ CmdAt("create_storage_path")
    /\ CmdStepDone("create_storage_path", IF ok THEN None ELSE Some("Io"))
    /\ cdir' = IF ok THEN Some(create_storage_path(UrlPlatform[curl],
                                                   Unwrap(cmeta).channel,
                                                   Unwrap(cmeta).id))
               ELSE cdir
    /\ UNCHANGED <<ckey, curl, cdl, cmeta>>
    /\ UNCHANGED <<dbVars, fsVars, rxVars, txVars, snVars, lres, migVars, pureVars>>

\* move_audio_file(&audio_file, &storage_path)?
CmdMoveAudioFile(ok) ==
    /\ CmdAt("move_audio_file")
    /\ CmdStepDone("move_audio_file", IF ok THEN None ELSE Some("Io"))
    /\ fsAu' = IF ok THEN [fsAu EXCEPT ![Unwrap(cdir)] = TRUE] ELSE fsAu
    /\ UNCHANGED <<ckey, curl, cdl, cmeta, cdir>>
    /\ UNCHANGED <<fsTj, fsMj, fsMd, fsRoot>>
    /\ UNCHANGED <<dbVars, rxVars, txVars, snVars, lres, migVars, pureVars>>

\* save_transcript: fs::write(&md_path, markdown)?
CmdWriteMarkdown(ok) ==
    /\ CmdAt("write_markdown")
    /\ CmdStepDone("write_markdown", IF ok THEN None ELSE Some("Io"))
    /\ fsMd' = IF ok THEN [fsMd EXCEPT ![Unwrap(cdir)] = TRUE] ELSE fsMd
    /\ UNCHANGED <<ckey, curl, cdl, cmeta, cdir>>
    /\ UNCHANGED <<fsTj, fsMj, fsAu, fsRoot>>
    /\ UNCHANGED <<dbVars, rxVars, txVars, snVars, lres, migVars, pureVars>>

\* fs::write: the file is written whole, is not created, or is created and the
\* write fails part way.
WriteOutcomes == {"ok", "failed", "truncated"}

\* save_transcript: fs::write(&json_path, ...)?
CmdWriteJson(out) ==
    /\ CmdAt("write_json")
    /\ CmdStepDone("write_json", IF out = "ok" THEN None ELSE Some("Io"))
    /\ fsTj' = CASE out = "ok" -> [fsTj EXCEPT ![Unwrap(cdir)] = "ok"]
                 [] out = "truncated" -> [fsTj EXCEPT ![Unwrap(cdir)] = "corrupt"]
                 [] OTHER -> fsTj
    /\ UNCHANGED <<ckey, curl, cdl, cmeta, cdir>>
    /\ UNCHANGED <<fsMj, fsAu, fsMd, fsRoot>>
    /\ UNCHANGED <<dbVars, rxVars, txVars, snVars, lres, migVars, pureVars>>

\* A metadata.json written without the title of the video.
MetadataJsonWithoutTitle(metadata) ==
    [state |-> "ok", id |-> Some(metadata.id), title |-> None,
     channel |-> Some(metadata.channel)]

\* The metadata.json save_metadata writes: the VideoMetadata as a JSON object.
MetadataJson(metadata) ==
    [state |-> "ok", id |-> Some(metadata.id), title |-> Some(metadata.title),
     channel |-> Some(metadata.channel)]

\* save_metadata(&storage_path, &metadata)?
CmdSaveMetadata(out) ==
    /\ CmdAt("save_metadata")
    /\ CmdStepDone("save_metadata", IF out = "ok" THEN None ELSE Some("Io"))
    /\ fsMj' = CASE out = "ok" ->
                      [fsMj EXCEPT ![Unwrap(cdir)] = MetadataJson(Unwrap(cmeta))]
                 [] out = "truncated" ->
                      [fsMj EXCEPT ![Unwrap(cdir)] = [state |-> "corrupt", id |-> None]]
                 [] OTHER -> fsMj
    /\ UNCHANGED <<ckey, curl, cdl, cmeta, cdir>>
    /\ UNCHANGED <<fsTj, fsAu, fsMd, fsRoot>>
    /\ UNCHANGED <<dbVars, rxVars, txVars, snVars, lres, migVars, pureVars>>

\* add_transcript(&TranscriptMetadata {...})?
CmdAddTranscript(outcome) ==
    /\ CmdAt("add_transcript")
    /\ AddTranscriptCall(CmdRecord, outcome)
    /\ CmdStepDone("add_transcript", IF outcome = "ok" THEN None ELSE Some("Database"))
    /\ UNCHANGED <<ckey, curl, cdl, cmeta, cdir>>
    /\ UNCHANGED <<fsVars, rxVars, txVars, snVars, lres, migVars, pureVars>>

\* run prints the summary and returns Ok(()).
CmdReturn ==
    /\ CmdAt("return")
    /\ cend' = Some("Ok")
    /\ UNCHANGED <<ckey, curl, cpc, cdl, cmeta, cdir>>
    /\ UNCHANGED <<dbVars, fsVars, rxVars, txVars, snVars, lres, migVars, pureVars>>

\* The process is stopped between two calls of run.
CmdKilled ==
    /\ cend = None /\ cpc # "idle"
    /\ tphase = "idle" \/ tresult # None
    /\ cend' = Some("Killed")
    /\ UNCHANGED <<ckey, curl, cpc, cdl, cmeta, cdir>>
    /\ UNCHANGED <<dbVars, fsVars, rxVars, txVars, snVars, lres, migVars, pureVars>>

\* The platform arguments of the list command.
ListPlatforms == {None, Some("yt")}

\* The command starts on an empty index, with or without the credential, on a
\* data directory that does not exist yet or that holds one stored transcript.
InitCmd ==
    /\ DbEmpty /\ OneWriter /\ IdleRx /\ IdleTx /\ IdleSn /\ IdleMig /\ IdlePure
    /\ \/ /\ fsTj = [d \in Dirs |-> "none"]
          /\ fsMj = [d \in Dirs |-> [state |-> "none", id |-> None]]
          /\ fsAu = [d \in Dirs |-> FALSE]
          /\ fsMd = [d \in Dirs |-> FALSE]
          /\ fsRoot = FALSE
       \/ /\ fsTj = [d \in Dirs |-> IF d = <<"yt", "chB", "v1">> THEN "ok" ELSE "none"]
          /\ fsMj = [d \in Dirs |-> IF d = <<"yt", "chB", "v1">>
                                    THEN [state |-> "ok", id |-> Some("v1")]
                                    ELSE [state |-> "none", id |-> None]]
          /\ fsAu = [d \in Dirs |-> d = <<"yt", "chB", "v1">>]
          /\ fsMd = [d \in Dirs |-> d = <<"yt", "chB", "v1">>]
          /\ fsRoot = TRUE
    /\ ckey \in BOOLEAN
    /\ curl \in CmdUrls
    /\ cpc = "idle" /\ cend = None /\ cdl = FALSE /\ cmeta = None /\ cdir = None
    /\ lres = None

\* assemblyai.transcribe(&audio_file): the steps of the job client.
CmdTranscribeStep == CmdAt("transcribe") /\ NextTx

\* The reindex command, run once the transcribe command has ended.
CmdThenReindex == cend # None /\ fsRoot /\ NextReindex

\* The list command, run once the transcribe command has ended.
CmdThenList(platform) == cend # None /\ lres = None /\ ListTranscripts(platform)

\* One run of the command; once it has ended, reindex and list run on what it left.
NextCmd ==
    \/ CmdValidateConfig
    \/ \E ok \in BOOLEAN : CmdEnsureDirectories(ok)
    \/ \E res \in {None} \cup {Some(m) : m \in CmdMetas} : CmdDownloadAudio(res)
    \/ CmdNewClient
    \/ CmdTranscribeStep
    \/ CmdTranscribed
    \/ \E ok \in BOOLEAN : CmdCreateStoragePath(ok)
    \/ \E ok \in BOOLEAN : CmdMoveAudioFile(ok)
    \/ \E ok \in BOOLEAN : CmdWriteMarkdown(ok)
    \/ \E out \in WriteOutcomes : CmdWriteJson(out)
    \/ \E out \in WriteOutcomes : CmdSaveMetadata(out)
    \/ \E outcome \in DbOutcomes : CmdAddTranscript(outcome)
    \/ CmdReturn
    \/ CmdKilled
    \/ CmdThenReindex
    \/ \E platform \in ListPlatforms : CmdThenList(platform)

SpecCmd == InitCmd /\ [][NextCmd]_vars

(***************************************************************************)
(* Search Index, schema: src/src/database.rs                               *)
(***************************************************************************)
\* The columns of transcripts the model carries, next to the rowid id.
ModelColumns == {"video_id", "title", "channel", "platform", "description", "path"}

\* CREATE TABLE IF NOT EXISTS transcripts of init_tables.
CurrentColumns == ModelColumns \cup {"channel_handle"}

\* The table of the releases that stored chapters, before channel_handle.
ChaptersColumns == ModelColumns \cup {"chapters"}

\* The table of the releases between the two migrations.
NoHandleColumns == ModelColumns

\* CREATE TABLE transcripts_new of migrate_remove_chapters.
NewColumns == ModelColumns

\* CREATE VIRTUAL TABLE transcripts_fts USING fts5(...), and the table of the
\* releases that stored chapters.
FtsColumns == {"title", "channel", "description", "transcript_text"}
ChaptersFtsColumns == FtsColumns \cup {"chapters_text"}

\* A row with one more column.
WithColumn(row, col, val) ==
    [c \in DOMAIN row \cup {col} |-> IF c = col THEN val ELSE row[c]]

\* An INSERT ... SELECT without the id column: the copies get fresh rowids, in
\* the order of the scan.
CopiedRowidRenumbered(rs, i) == Cardinality({j \in DOMAIN rs : j <= i})

\* INSERT INTO transcripts_new (id, ...) SELECT id, ...: the rowid of the copy
\* of row i.
CopiedRowid(rs, i) == i

\* A check that takes every table for one with a chapters column.
HasColumnAlways(cols, name) == TRUE

\* SELECT 1 FROM pragma_table_info('transcripts') WHERE name = ?
HasColumn(cols, name) == name \in cols

\* The rows of transcripts_fts after the batch created it: none, no statement
\* fills it from transcripts.
RecreatedFts == <<>>

\* get_connection is called: Connection::open, then init_tables.
MigOpen ==
    /\ mpc = "closed"
    /\ mpc' = "create_tables"
    /\ mres' = None
    /\ mold' = Some([rows |-> rows, fts |-> fts, tcols |-> tcols, fcols |-> fcols])
    /\ UNCHANGED <<tcols, fcols, tnew>>
    /\ UNCHANGED <<dbVars, fsVars, rxVars, txVars, snVars, cmdVars, lres, pureVars>>

\* init_tables: the batch of the two CREATE ... IF NOT EXISTS statements.
MigCreateTables ==
    /\ mpc = "create_tables"
    /\ tcols' = IF tcols = {} THEN CurrentColumns ELSE tcols
    /\ fcols' = IF fcols = {} THEN FtsColumns ELSE fcols
    /\ mpc' = "check_chapters"
    /\ UNCHANGED <<tnew, mres, mold>>
    /\ UNCHANGED <<dbVars, fsVars, rxVars, txVars, snVars, cmdVars, lres, pureVars>>

\* migrate_remove_chapters: has_chapters_column.
MigCheckChapters ==
    /\ mpc = "check_chapters"
    /\ mpc' = IF HasColumn(tcols, "chapters") THEN "create_new" ELSE "check_handle"
    /\ UNCHANGED <<tcols, fcols, tnew, mres, mold>>
    /\ UNCHANGED <<dbVars, fsVars, rxVars, txVars, snVars, cmdVars, lres, pureVars>>

\* CREATE TABLE transcripts_new: an error when the table exists, which ends
\* the batch, init_tables and get_connection with Err.
MigCreateNew ==
    /\ mpc = "create_new"
    /\ IF tnew # None
       THEN mpc' = "closed" /\ mres' = Some("Err") /\ tnew' = tnew
       ELSE mpc' = "copy" /\ mres' = mres /\ tnew' = Some(<<>>)
    /\ UNCHANGED <<tcols, fcols, mold>>
    /\ UNCHANGED <<dbVars, fsVars, rxVars, txVars, snVars, cmdVars, lres, pureVars>>

\* INSERT INTO transcripts_new (...) SELECT ... FROM transcripts.
MigCopy ==
    /\ mpc = "copy"
    /\ tnew' = Some([k \in {CopiedRowid(rows, i) : i \in DOMAIN rows} |->
                        LET i == CHOOSE i \in DOMAIN rows : CopiedRowid(rows, i) = k
                        IN  [c \in NewColumns |-> rows[i][c]]])
    /\ mpc' = "drop_old"
    /\ UNCHANGED <<tcols, fcols, mres, mold>>
    /\ UNCHANGED <<dbVars, fsVars, rxVars, txVars, snVars, cmdVars, lres, pureVars>>

\* DROP TABLE transcripts: the rows and the table's entry in sqlite_sequence go.
MigDropOld ==
    /\ mpc = "drop_old"
    /\ rows' = <<>>
    /\ seq' = 0
    /\ tcols' = {}
    /\ mpc' = "rename"
    /\ UNCHANGED <<fcols, tnew, mres, mold>>
    /\ UNCHANGED <<fts, wpc, wmeta, wid, latest, replaced, everCrashed, dret>>
    /\ UNCHANGED <<fsVars, rxVars, txVars, snVars, cmdVars, lres, pureVars>>

\* ALTER TABLE transcripts_new RENAME TO transcripts: the rows copied with
\* their ids, and the sqlite_sequence entry the copy left, the largest id.
MigRename ==
    /\ mpc = "rename"
    /\ rows' = Unwrap(tnew)
    /\ seq' = SetMax(DOMAIN Unwrap(tnew) \cup {0})
    /\ tcols' = NewColumns
    /\ tnew' = None
    /\ mpc' = "drop_fts"
    /\ UNCHANGED <<fcols, mres, mold>>
    /\ UNCHANGED <<fts, wpc, wmeta, wid, latest, replaced, everCrashed, dret>>
    /\ UNCHANGED <<fsVars, rxVars, txVars, snVars, cmdVars, lres, pureVars>>

\* DROP TABLE IF EXISTS transcripts_fts.
MigDropFts ==
    /\ mpc = "drop_fts"
    /\ fts' = <<>>
    /\ fcols' = {}
    /\ mpc' = "create_fts"
    /\ UNCHANGED <<tcols, tnew, mres, mold>>
    /\ UNCHANGED <<rows, seq, wpc, wmeta, wid, latest, replaced, everCrashed, dret>>
    /\ UNCHANGED <<fsVars, rxVars, txVars, snVars, cmdVars, lres, pureVars>>

\* CREATE VIRTUAL TABLE transcripts_fts USING fts5(...): the end of the batch.
MigCreateFts ==
    /\ mpc = "create_fts"
    /\ fts' = RecreatedFts
    /\ fcols' = FtsColumns
    /\ mpc' = "check_handle"
    /\ UNCHANGED <<tcols, tnew, mres, mold>>
    /\ UNCHANGED <<rows, seq, wpc, wmeta, wid, latest, replaced, everCrashed, dret>>
    /\ UNCHANGED <<fsVars, rxVars, txVars, snVars, cmdVars, lres, pureVars>>

\* migrate_add_channel_handle: ALTER TABLE transcripts ADD COLUMN
\* channel_handle TEXT where the column is missing; every row reads NULL in it.
MigAddChannelHandle ==
    /\ mpc = "check_handle"
    /\ IF HasColumn(tcols, "channel_handle")
       THEN UNCHANGED <<rows, tcols>>
       ELSE /\ tcols' = tcols \cup {"channel_handle"}
            /\ rows' = [i \in DOMAIN rows |-> WithColumn(rows[i], "channel_handle", None)]
    /\ mpc' = "opened"
    /\ UNCHANGED <<fcols, tnew, mres, mold>>
    /\ UNCHANGED <<fts, seq, wpc, wmeta, wid, latest, replaced, everCrashed, dret>>
    /\ UNCHANGED <<fsVars, rxVars, txVars, snVars, cmdVars, lres, pureVars>>

\* init_tables and get_connection return Ok; the caller uses the connection
\* and drops it.
MigOpened ==
    /\ mpc = "opened"
    /\ mpc' = "closed"
    /\ mres' = Some("Ok")
    /\ UNCHANGED <<tcols, fcols, tnew, mold>>
    /\ UNCHANGED <<dbVars, fsVars, rxVars, txVars, snVars, cmdVars, lres, pureVars>>

\* The process stops between two statements: execute_batch runs outside a
\* transaction, so what the statements before did stays in the file.
MigStops ==
    /\ mpc \notin {"closed", "create_tables", "opened"}
    /\ mpc' = "closed"
    /\ mres' = Some("Killed")
    /\ UNCHANGED <<tcols, fcols, tnew, mold>>
    /\ UNCHANGED <<dbVars, fsVars, rxVars, txVars, snVars, cmdVars, lres, pureVars>>

\* The records add_transcript stored in the file under an earlier release.
MigMetas == {m \in Metas : m.video_id = "v1" \/ m.title = <<"a">>}

\* The contents of an index file with the given columns: up to two rows with
\* different video ids, each with its shadow entry, at rowids that may lie
\* above the number of rows, and a sequence value at or above the largest rowid.
StoredIndex(cols, ftscols) ==
    \E stored \in UNION {[1..n -> MigMetas] : n \in 0..2},
       gap \in 0..1, used \in 0..1 :
        /\ \A i, j \in DOMAIN stored : i # j => stored[i].video_id # stored[j].video_id
        /\ rows = [i \in {k + gap : k \in DOMAIN stored} |->
                    [c \in cols |->
                        CASE c = "chapters" -> Some("[]")
                          [] c = "channel_handle" -> IF i = 1 THEN None ELSE Some("@h")
                          [] OTHER -> RowOf(stored[i - gap])[c]]]
        /\ fts = [i \in {k + gap : k \in DOMAIN stored} |->
                    [c \in ftscols |->
                        IF c = "chapters_text" THEN <<"a">>
                        ELSE FtsOf(stored[i - gap])[c]]]
        /\ seq = Len(stored) + gap + used

\* The index files get_connection is called on: none yet, one written by this
\* release, or one written by either kind of earlier release.
InitMig ==
    /\ OneWriter /\ OneStoredFs /\ IdleRx /\ IdleTx /\ IdleSn /\ IdleCmd /\ lres = None
    /\ IdlePure
    /\ latest = [v \in VideoIds |-> None]
    /\ replaced = {} /\ everCrashed = FALSE /\ dret = None
    /\ \/ tcols = {} /\ fcols = {} /\ rows = <<>> /\ fts = <<>> /\ seq = 0
       \/ tcols = CurrentColumns /\ fcols = FtsColumns
            /\ StoredIndex(CurrentColumns, FtsColumns)
       \/ tcols = NoHandleColumns /\ fcols = FtsColumns
            /\ StoredIndex(NoHandleColumns, FtsColumns)
       \/ tcols = ChaptersColumns /\ fcols = ChaptersFtsColumns
            /\ StoredIndex(ChaptersColumns, ChaptersFtsColumns)
    /\ tnew = None /\ mpc = "closed" /\ mres = None /\ mold = None

NextMig ==
    \/ MigOpen
    \/ MigCreateTables
    \/ MigCheckChapters
    \/ MigCreateNew
    \/ MigCopy
    \/ MigDropOld
    \/ MigRename
    \/ MigDropFts
    \/ MigCreateFts
    \/ MigAddChannelHandle
    \/ MigOpened
    \/ MigStops

SpecMig == InitMig /\ [][NextMig]_vars

(***************************************************************************)
(* Storage Layer, platform of a URL: src/src/storage.rs                    *)
(***************************************************************************)
\* PLATFORM_MAP: (pattern, platform) in the order of the source.
PLATFORM_MAP ==
    << <<<<"y", "o", "u", "t", "u", "b", "e", ".", "c", "o", "m">>, <<"y", "o", "u", "t", "u", "b", "e">>>>,
       <<<<"y", "o", "u", "t", "u", ".", "b", "e">>, <<"y", "o", "u", "t", "u", "b", "e">>>>,
       <<<<"v", "i", "m", "e", "o", ".", "c", "o", "m">>, <<"v", "i", "m", "e", "o">>>>,
       <<<<"t", "w", "i", "t", "t", "e", "r", ".", "c", "o", "m">>, <<"t", "w", "i", "t", "t", "e", "r">>>>,
       <<<<"x", ".", "c", "o", "m">>, <<"t", "w", "i", "t", "t", "e", "r">>>>,
       <<<<"t", "w", "i", "t", "c", "h", ".", "t", "v">>, <<"t", "w", "i", "t", "c", "h">>>>,
       <<<<"d", "a", "i", "l", "y", "m", "o", "t", "i", "o", "n", ".", "c", "o", "m">>, <<"d", "a", "i", "l", "y", "m", "o", "t", "i", "o", "n">>>>,
       <<<<"f", "a", "c", "e", "b", "o", "o", "k", ".", "c", "o", "m">>, <<"f", "a", "c", "e", "b", "o", "o", "k">>>>,
       <<<<"f", "b", ".", "w", "a", "t", "c", "h">>, <<"f", "a", "c", "e", "b", "o", "o", "k">>>>,
       <<<<"i", "n", "s", "t", "a", "g", "r", "a", "m", ".", "c", "o", "m">>, <<"i", "n", "s", "t", "a", "g", "r", "a", "m">>>>,
       <<<<"t", "i", "k", "t", "o", "k", ".", "c", "o", "m">>, <<"t", "i", "k", "t", "o", "k">>>> >>

\* iter.nth(n).unwrap_or(default) on the pieces of a split, n counted from 0.
NthOr(pieces, n, default) == IF Len(pieces) > n THEN pieces[n + 1] ELSE default

\* get_platform_from_url(url)
get_platform_from_url(url) ==
    LET url_lower == ToLower(url)
        domain == TrimStartMatches(
                      NthOr(Split(NthOr(Split(url_lower, <<":", "/", "/">>), 1, url_lower),
                                  <<"/">>), 0, <<>>),
                      <<"w", "w", "w", ".">>)
        matches == {k \in DOMAIN PLATFORM_MAP : StrContains(domain, PLATFORM_MAP[k][1])}
    IN  IF matches # {}
        THEN PLATFORM_MAP[CHOOSE k \in matches : \A j \in matches : k <= j][2]
        ELSE NthOr(Split(domain, <<".">>), 0, <<"u", "n", "k", "n", "o", "w", "n">>)

\* The URLs of the model, in parts: a scheme with its separator or none, at
\* most one www. prefix, a host and the rest.
UrlSchemes == {<<>>, <<"h", "t", "t", "p", "s", ":", "/", "/">>, <<"H", "T", "T", "P", ":", "/", "/">>}
UrlHosts ==
    {PLATFORM_MAP[k][1] : k \in DOMAIN PLATFORM_MAP}
    \cup {<<"Y", "o", "u", "T", "u", "b", "e", ".", "c", "o", "m">>, <<"m", ".", "y", "o", "u", "t", "u", "b", "e", ".", "c", "o", "m">>, <<"d", "r", "o", "p", "b", "o", "x", ".", "c", "o", "m">>, <<"e", "x", "a", "m", "p", "l", "e", ".", "o", "r", "g">>,
          <<"r", "u", "m", "b", "l", "e", ".", "c", "o", "m">>, <<"l", "o", "c", "a", "l", "h", "o", "s", "t">>, <<>>, <<".">>, <<".", "c", "o", "m">>, <<"a", ".", "b", ".", "c">>}
UrlRests == {<<>>, <<"/", "w", "a", "t", "c", "h", "?", "v", "=", "x">>, <<"/", "r", "?", "u", "=", "h", "t", "t", "p", ":", "/", "/", "v", "i", "m", "e", "o", ".", "c", "o", "m", "/", "1">>}
Urls == [scheme : UrlSchemes, www : BOOLEAN, host : UrlHosts, rest : UrlRests]

\* The string of a URL given in parts.
UrlText(u) == u.scheme \o (IF u.www THEN <<"w", "w", "w", ".">> ELSE <<>>) \o u.host \o u.rest

\* A caller calls get_platform_from_url on a URL.
ClassifyPlatform ==
    /\ pret = None
    /\ pret' = Some(get_platform_from_url(UrlText(parg)))
    /\ UNCHANGED <<parg>>
    /\ UNCHANGED <<dbVars, fsVars, rxVars, txVars, snVars, cmdVars, lres, migVars>>

InitPlatform ==
    /\ DbEmpty /\ OneWriter /\ IdleFs /\ IdleRx /\ IdleTx
    /\ IdleSn /\ IdleCmd /\ lres = None /\ IdleMig
    /\ parg \in Urls
    /\ pret = None

NextPlatform == ClassifyPlatform

SpecPlatform == InitPlatform /\ [][NextPlatform]_vars

(***************************************************************************)
(* Search Index, listing: src/src/database.rs                              *)
(***************************************************************************)
\* The latest CURRENT_TIMESTAMP (whole seconds) the model lets the clock reach.
MaxClock == 2

\* The TranscriptMetadata values indexed before a listing; channel and handle
\* are names spelled out by Spelling, and one channel comes with its handle.
IdxMetas ==
    {m \in [video_id : VideoIds, title : {<<"a">>}, channel : {"Econ", "chA"},
            platform : {"yt", "vimeo"}, description : {None}, path : {<<"p">>},
            transcript_text : {<<"a">>}, channel_handle : {None, Some("@EconTV")}] :
        m.channel_handle # None <=> m.channel = "Econ"}

\* The latest transcribed_at stored: the clock has reached at least this second.
LastStamp(rs) == SetMax({rs[i].transcribed_at : i \in DOMAIN rs})

\* add_transcript, both statements: the row with channel_handle bound from
\* meta and transcribed_at left to DEFAULT CURRENT_TIMESTAMP, read at second
\* `at`, then the transcripts_fts row under last_insert_rowid().
IdxAddTranscript(meta, at) ==
    /\ pret = None
    /\ NextRowid(rows, seq) <= MaxRowid
    /\ at >= LastStamp(rows) /\ at <= MaxClock
    /\ LET id == LastInsertRowid(rows, seq, meta)
           row == WithColumn(WithColumn(RowOf(meta), "channel_handle", meta.channel_handle),
                             "transcribed_at", at)
       IN  /\ rows' = [InsertOrReplaceRow(rows, seq, meta) EXCEPT ![id] = row]
           /\ fts' = InsertOrReplaceFts(fts, id, meta)
           /\ seq' = id
    /\ latest' = [latest EXCEPT ![meta.video_id] = Some(meta)]
    /\ UNCHANGED <<wpc, wmeta, wid, replaced, everCrashed, dret>>
    /\ UNCHANGED <<fsVars, extVars, rxVars, txVars>>

RECURSIVE Like(_, _)
\* text LIKE pattern: % stands for any characters, _ for one character, any
\* other character for itself in either case.
Like(text, pattern) ==
    IF pattern = <<>> THEN text = <<>>
    ELSE IF Head(pattern) = "%"
    THEN \E k \in 0..Len(text) : Like(SubSeq(text, k + 1, Len(text)), Tail(pattern))
    ELSE /\ text # <<>>
         /\ Head(pattern) = "_" \/ LowerChar(Head(text)) = LowerChar(Head(pattern))
         /\ Like(Tail(text), Tail(pattern))

\* format!("%{}%", c)
Percented(c) == <<"%">> \o c \o <<"%">>

\* The WHERE clause list_all_transcripts builds: AND platform = ?, AND channel
\* LIKE ?, AND channel_handle LIKE ? (NULL LIKE ? is not true).
ListWhere(row, platform, channel, handle) ==
    /\ platform # None => row.platform = Unwrap(platform)
    /\ channel # None => Like(Spelling[row.channel], Percented(Unwrap(channel)))
    /\ handle # None =>
          /\ row.channel_handle # None
          /\ Like(Spelling[Unwrap(row.channel_handle)], Percented(Unwrap(handle)))

\* The TranscriptRecord of a row.
TranscriptRecord(rs, i) ==
    [id |-> i, video_id |-> rs[i].video_id, title |-> rs[i].title,
     channel |-> rs[i].channel, channel_handle |-> rs[i].channel_handle,
     platform |-> rs[i].platform, path |-> rs[i].path]

\* ORDER BY transcribed_at DESC: the orders the engine may return the rowids
\* of S in; rows of the same second come in any order.
OrderedByStampDesc(rs, S) ==
    {q \in [1..Cardinality(S) -> S] :
        /\ \A i, j \in DOMAIN q : i # j => q[i] # q[j]
        /\ \A i, j \in DOMAIN q : i < j => rs[q[i]].transcribed_at >= rs[q[j]].transcribed_at}

\* list_all_transcripts(platform, channel, handle, limit): the vectors it can return.
list_all_transcripts(platform, channel, handle, limit) ==
    LET S == {i \in DOMAIN rows : ListWhere(rows[i], platform, channel, handle)}
        n == Limited(Cardinality(S), limit)
    IN  {[k \in 1..n |-> TranscriptRecord(rows, q[k])] : q \in OrderedByStampDesc(rows, S)}

\* A call of list_all_transcripts; parg keeps its arguments.
ListAll(platform, channel, handle, limit) ==
    /\ pret = None
    /\ parg' = [platform |-> platform, channel |-> channel, handle |-> handle,
                limit |-> limit]
    /\ pret' \in {Some(r) : r \in list_all_transcripts(platform, channel, handle, limit)}
    /\ UNCHANGED <<dbVars, fsVars, rxVars, txVars, snVars, cmdVars, lres, migVars>>

\* The arguments of the listing: filters in another case than the names, one
\* with a character LIKE reads as a wildcard.
IdxPlatformArgs == {None, Some("yt")}
IdxChannelArgs == {None, Some(<<"E", "C", "O">>), Some(<<"h", "_">>)}
IdxHandleArgs == {None, Some(<<"t", "v">>)}
IdxLimits == {-1, 1, 20}

InitIdx == DbEmpty /\ OneWriter /\ IdleFs /\ IdleRx /\ IdleTx /\ IdleExt

NextIdx ==
    \/ \E meta \in IdxMetas, at \in 0..MaxClock : IdxAddTranscript(meta, at)
    \/ \E platform \in IdxPlatformArgs, channel \in IdxChannelArgs,
          handle \in IdxHandleArgs, limit \in IdxLimits :
            ListAll(platform, channel, handle, limit)

SpecIdx == InitIdx /\ [][NextIdx]_vars

(***************************************************************************)
(* Storage Layer, reading a transcript: src/src/storage.rs                 *)
(***************************************************************************)
\* What get_transcript finds of the three files of a transcript directory:
\* a prose file is absent, readable or failing in fs::read_to_string;
\* transcript.json may also read and fail in serde_json::from_str.
ProseStates == {"absent", "ok", "unreadable"}
JsonStates == {"absent", "ok", "unreadable", "corrupt"}

\* The path given: the directory, or one of its three files.
ReadPaths == {"dir", "transcript.md", "transcript.txt", "transcript.json"}

ReadArgs == [path : ReadPaths, md : ProseStates, txt : ProseStates, json : JsonStates]

\* The contents of the readable files.
ProseOf(file) == IF file = "md" THEN <<"m", "d">> ELSE <<"t", "x", "t">>
StructuredOf == [id |-> "j1", text |-> <<"a">>]

ReadOk(text, structured) == [ok |-> TRUE, text |-> text, structured |-> structured]
ReadFailed(error) == [ok |-> FALSE, error |-> error]

\* A get_transcript that takes transcript.txt before transcript.md.
TextFileTxtFirst(a) ==
    IF a.path = "dir" THEN (IF a.txt # "absent" THEN "txt" ELSE "md")
    ELSE IF a.path = "transcript.txt" THEN "txt" ELSE "md"

\* get_transcript, the text file chosen: in a directory transcript.md if it
\* exists and transcript.txt otherwise; the path itself if it ends in md or
\* txt; else the path with the extension md.
TextFile(a) ==
    IF a.path = "dir" THEN (IF a.md # "absent" THEN "md" ELSE "txt")
    ELSE IF a.path = "transcript.txt" THEN "txt" ELSE "md"

\* get_transcript(path): each file is read if it exists, an error of a read or
\* of the parse is returned through `?`, and FileNotFound when neither exists.
get_transcript(a) ==
    LET text_file == TextFile(a)
    IN  IF a[text_file] = "unreadable" THEN ReadFailed("Io")
        ELSE IF a.json = "unreadable" THEN ReadFailed("Io")
        ELSE IF a.json = "corrupt" THEN ReadFailed("Json")
        ELSE IF a[text_file] = "absent" /\ a.json = "absent" THEN ReadFailed("FileNotFound")
        ELSE ReadOk(IF a[text_file] = "ok" THEN Some(ProseOf(text_file)) ELSE None,
                    IF a.json = "ok" THEN Some(StructuredOf) ELSE None)

\* The read command calls get_transcript on the path it resolved.
GetTranscript ==
    /\ pret = None
    /\ pret' = Some(get_transcript(parg))
    /\ UNCHANGED <<dbVars, fsVars, rxVars, txVars, snVars, cmdVars, lres, migVars, parg>>

InitRead ==
    /\ DbEmpty /\ OneWriter /\ IdleFs /\ IdleRx /\ IdleTx
    /\ IdleSn /\ IdleCmd /\ lres = None /\ IdleMig
    /\ parg \in ReadArgs
    /\ pret = None

NextRead == GetTranscript

SpecRead == InitRead /\ [][NextRead]_vars

(***************************************************************************)
(* Search Index, search results with their snippet: src/src/database.rs    *)
(***************************************************************************)
\* The TranscriptMetadata values indexed before a search: descriptions that
\* are missing, that hold the word searched for and that do not.
SearchMetas ==
    [video_id : VideoIds, title : {<<"t">>}, channel : {<<"c">>}, platform : {"yt"},
     description : {None, Some(<<"d">>), Some(<<"hello", "d">>)}, path : {<<"p">>},
     transcript_text : {<<"hello", "world">>, <<"x">>}]

\* The column of transcripts_fts (title, channel, description,
\* transcript_text; counted from 0) the snippet is taken from.
SnippetColumn == 2
SnippetColumnText(f) ==
    CASE SnippetColumn = 0 -> f.title
      [] SnippetColumn = 1 -> f.channel
      [] SnippetColumn = 2 -> f.description
      [] SnippetColumn = 3 -> f.transcript_text

RECURSIVE Highlight(_, _)
\* The tokens of a column with '>>> ' and ' <<<' around each match of the phrase.
Highlight(col, phrase) ==
    IF col = <<>> \/ phrase = <<>> THEN col
    ELSE IF Len(col) >= Len(phrase) /\ SubSeq(col, 1, Len(phrase)) = phrase
    THEN <<">>> ">> \o phrase \o <<" <<<">>
         \o Highlight(SubSeq(col, Len(phrase) + 1, Len(col)), phrase)
    ELSE <<Head(col)>> \o Highlight(Tail(col), phrase)

\* snippet(transcripts_fts, 2, '>>> ', ' <<<', '...', 32): the text of column 2
\* of the row; the columns of the model are shorter than 32 tokens.
Snippet(f, phrase) == Highlight(SnippetColumnText(f), phrase)

\* The SearchResult of a hit: the columns of the row and the snippet.
SearchResult(hit, phrase) == WithColumn(hit, "snippet", Some(Snippet(fts[hit.id], phrase)))

\* A call of search_transcripts on an index no add_transcript is writing to;
\* parg keeps its arguments.
Search(phrase, limit) ==
    /\ pret = None /\ Quiescent
    /\ parg' = [query |-> phrase, limit |-> limit]
    /\ pret' \in {Some({SearchResult(hit, phrase) : hit \in R}) :
                    R \in search_transcripts(phrase, limit)}
    /\ UNCHANGED <<dbVars, fsVars, rxVars, txVars, snVars, cmdVars, lres, migVars>>

SearchQueries == {<<"hello">>, <<"hello", "world">>, <<"d">>}
SearchLimits == {1, 20}

\* add_transcript, its two statements, before the search.
SearchAddRow(meta) == pret = None /\ AddInsertRow(1, meta)
SearchAddFts == pret = None /\ AddInsertFts(1)

InitSearch == DbEmpty /\ OneWriter /\ OneStoredFs /\ IdleRx /\ IdleTx /\ IdleExt

NextSearch ==
    \/ \E meta \in SearchMetas : SearchAddRow(meta)
    \/ SearchAddFts
    \/ \E phrase \in SearchQueries, limit \in SearchLimits : Search(phrase, limit)

SpecSearch == InitSearch /\ [][NextSearch]_vars

(***************************************************************************)
(* Formatter: src/src/transcriber.rs                                       *)
(***************************************************************************)
\* The longest utterance sequence of the model.
MaxUtterances == 3

\* start offsets in milliseconds: the first second, past one minute, the last
\* millisecond before one hour, and past one hour.
Offsets == {0, 61000, 3599999, 3661000}

\* Texts are sequences of words, speakers the tokens of the service.
Utterances == [speaker : {"A", "B"}, text : {<<"hi">>, <<"there">>}, start : Offsets]

RECURSIVE SeqsUpTo(_, _)
\* The sequences over S of length at most n.
SeqsUpTo(S, n) ==
    IF n = 0 THEN {<<>>}
    ELSE LET shorter == SeqsUpTo(S, n - 1)
         IN  shorter \cup {Append(q, x) : q \in {r \in shorter : Len(r) = n - 1}, x \in S}

TranscriptDatas == [text : {<<"all">>}, utterances : SeqsUpTo(Utterances, MaxUtterances)]

Digit == <<"0", "1", "2", "3", "4", "5", "6", "7", "8", "9">>

RECURSIVE Decimal(_)
\* A number written in decimal digits.
Decimal(n) == IF n < 10 THEN <<Digit[n + 1]>> ELSE Decimal(n \div 10) \o <<Digit[(n % 10) + 1]>>

\* format!("{:02}", n): at least two digits, filled with 0 on the left.
Pad2(n) == IF n < 10 THEN <<"0">> \o Decimal(n) ELSE Decimal(n)

\* A format_timestamp that prints the minutes without taking them modulo 60.
format_timestamp_total_minutes(ms) ==
    LET seconds == ms \div 1000
        minutes == seconds \div 60
        hours == minutes \div 60
    IN  IF hours > 0
        THEN Pad2(hours) \o <<":">> \o Pad2(minutes) \o <<":">> \o Pad2(seconds % 60)
        ELSE Pad2(minutes) \o <<":">> \o Pad2(seconds % 60)

\* format_timestamp(ms), for offsets that are not negative.
format_timestamp(ms) ==
    LET seconds == ms \div 1000
        minutes == seconds \div 60
        hours == minutes \div 60
    IN  IF hours > 0
        THEN Pad2(hours) \o <<":">> \o Pad2(minutes % 60) \o <<":">> \o Pad2(seconds % 60)
        ELSE Pad2(minutes) \o <<":">> \o Pad2(seconds % 60)

RECURSIVE JoinSpace(_)
\* current_texts.join(" ")
JoinSpace(texts) ==
    IF texts = <<>> THEN <<>>
    ELSE IF Len(texts) = 1 THEN texts[1]
    ELSE texts[1] \o <<" ">> \o JoinSpace(Tail(texts))

\* format!("**Speaker {}** [{}]: {}", speaker, timestamp, text)
MarkdownParagraph(speaker, timestamp, text) ==
    <<"**Speaker ", speaker, "** [", timestamp, "]: ", text>>

\* format!("Speaker {}: {}", speaker, text)
PlainParagraph(speaker, text) == <<"Speaker ", speaker, ": ", text>>

\* A comparison that never finds the speaker of the batch again.
SameSpeakerNever(current_speaker, utterance) == FALSE

\* current_speaker == Some(&utterance.speaker)
SameSpeaker(current_speaker, utterance) == current_speaker = Some(utterance.speaker)

\* format_transcript_markdown: the variables of the loop before the first utterance.
LoopStart ==
    [current_speaker |-> None, current_texts |-> <<>>, paragraph_start |-> 0,
     result |-> <<>>]

\* format_transcript_markdown: the paragraph pushed when a batch ends.
MarkdownFlush(st) ==
    IF st.current_speaker = None THEN st.result
    ELSE Append(st.result,
                MarkdownParagraph(Unwrap(st.current_speaker),
                                  format_timestamp(st.paragraph_start),
                                  JoinSpace(st.current_texts)))

RECURSIVE MarkdownLoop(_, _, _)
\* format_transcript_markdown: for utterance in &data.utterances, from the
\* i-th on, and the push after the loop.
MarkdownLoop(utterances, i, st) ==
    IF i > Len(utterances) THEN MarkdownFlush(st)
    ELSE IF SameSpeaker(st.current_speaker, utterances[i])
    THEN MarkdownLoop(utterances, i + 1,
                      [st EXCEPT !.current_texts = Append(@, utterances[i].text)])
    ELSE MarkdownLoop(utterances, i + 1,
                      [current_speaker |-> Some(utterances[i].speaker),
                       current_texts |-> <<utterances[i].text>>,
                       paragraph_start |-> utterances[i].start,
                       result |-> MarkdownFlush(st)])

\* format_transcript_markdown(data): the heading, then data.text where there
\* are no utterances, else the paragraphs, joined by "\n\n".
format_transcript_markdown(data) ==
    IF data.utterances = <<>>
    THEN [heading |-> "## Transcript\n\n", text |-> Some(data.text), paragraphs |-> <<>>]
    ELSE [heading |-> "## Transcript\n\n", text |-> None,
          paragraphs |-> MarkdownLoop(data.utterances, 1, LoopStart)]

\* format_transcript: the paragraph pushed when a batch ends.
PlainFlush(st) ==
    IF st.current_speaker = None THEN st.result
    ELSE Append(st.result,
                PlainParagraph(Unwrap(st.current_speaker), JoinSpace(st.current_texts)))

RECURSIVE PlainLoop(_, _, _)
\* format_transcript: for utterance in &data.utterances, from the i-th on, and
\* the push after the loop.
PlainLoop(utterances, i, st) ==
    IF i > Len(utterances) THEN PlainFlush(st)
    ELSE IF SameSpeaker(st.current_speaker, utterances[i])
    THEN PlainLoop(utterances, i + 1,
                   [st EXCEPT !.current_texts = Append(@, utterances[i].text)])
    ELSE PlainLoop(utterances, i + 1,
                   [current_speaker |-> Some(utterances[i].speaker),
                    current_texts |-> <<utterances[i].text>>,
                    result |-> PlainFlush(st)])

\* format_transcript(data): data.text where there are no utterances, else the
\* paragraphs, joined by "\n\n".
format_transcript(data) ==
    IF data.utterances = <<>> THEN [text |-> Some(data.text), paragraphs |-> <<>>]
    ELSE [text |-> None,
          paragraphs |-> PlainLoop(data.utterances, 1,
                                   [current_speaker |-> None, current_texts |-> <<>>,
                                    result |-> <<>>])]

\* Both formatters applied to the TranscriptData in parg.
FormatTranscript ==
    /\ pret = None
    /\ pret' = Some([plain |-> format_transcript(parg),
                     markdown |-> format_transcript_markdown(parg)])
    /\ UNCHANGED <<dbVars, fsVars, rxVars, txVars, snVars, cmdVars, lres, migVars, parg>>

InitFormat ==
    /\ DbEmpty /\ OneWriter /\ IdleFs /\ IdleRx /\ IdleTx
    /\ IdleSn /\ IdleCmd /\ lres = None /\ IdleMig
    /\ parg \in TranscriptDatas
    /\ pret = None

NextFormat == FormatTranscript

SpecFormat == InitFormat /\ [][NextFormat]_vars

(***************************************************************************)
(* Search Index, two invocations writing at once: src/src/database.rs      *)
(***************************************************************************)
\* Two processes, each with its own connection (get_connection opens one per
\* call), on an empty index.
TwoWriters ==
    /\ wpc = [w \in {1, 2} |-> "idle"]
    /\ wmeta = [w \in {1, 2} |-> None]
    /\ wid = [w \in {1, 2} |-> 0]

InitRace == DbEmpty /\ TwoWriters /\ OneStoredFs /\ IdleRx /\ IdleTx /\ IdleExt

\* The statements of the add_transcript calls of the two, in any order.
NextRace ==
    \/ \E w \in Writers, meta \in Metas : AddInsertRow(w, meta)
    \/ \E w \in Writers : AddInsertFts(w)

SpecRace == InitRace /\ [][NextRace]_vars

(***************************************************************************)
(* Storage Layer, the path of a video: src/src/storage.rs                  *)
(***************************************************************************)
\* A channel name whose byte SafeChannelMax lies inside a two-byte character.
LongChannel == <<"a">> \o [i \in 1..(SafeChannelMax \div 2) |-> "U+00E9"]

\* The channel names and video ids passed in: plain, of dots, holding a
\* separator, empty, and longer than the cut.
PathChannels == {<<"c", "h", "A">>, <<".">>, <<".", ".">>, <<".", ".", "/">>, <<"a", "/", "b">>, <<>>, LongChannel}
PathVideoIds == {<<"v", "1">>, <<".">>, <<".", ".">>, <<"/", ".", ".">>, <<>>}

\* The URLs the platform is taken from: every host of the model under https.
PathUrls == {u \in Urls : u.scheme = <<"h", "t", "t", "p", "s", ":", "/", "/">> /\ ~u.www /\ u.rest = <<>>}

\* transcripts_dir().join(platform).join(&safe_channel).join(&safe_video_id):
\* the segments joined to transcripts_dir(), or the panic of sanitize_filename.
\* No segment holds a separator: the platform is cut at the first "/" and
\* sanitize_filename replaces "/".
StoragePath(platform, channel, video_id) ==
    LET safe_channel  == sanitize_filename(channel, SafeChannelMax)
        safe_video_id == sanitize_filename(video_id, SafeVideoIdMax)
    IN  IF safe_channel.panic \/ safe_video_id.panic THEN Panic
        ELSE Value(<<platform, safe_channel.val, safe_video_id.val>>)

RECURSIVE Resolve(_, _)
\* The directory a joined path names, from the directory `at`: an empty
\* segment adds no component, "." names the directory itself and ".." its
\* parent.  up counts the levels above transcripts_dir(), down holds the names
\* below it.
Resolve(at, segments) ==
    IF segments = <<>> THEN at
    ELSE LET s == Head(segments)
             next == IF s = <<>> \/ s = <<".">> THEN at
                     ELSE IF s = <<".", ".">>
                     THEN (IF at.down # <<>>
                           THEN [at EXCEPT !.down = SubSeq(at.down, 1, Len(at.down) - 1)]
                           ELSE [at EXCEPT !.up = at.up + 1])
                     ELSE [at EXCEPT !.down = Append(at.down, s)]
         IN  Resolve(next, Tail(segments))

\* transcripts_dir() itself.
AtRoot == [up |-> 0, down |-> <<>>]

\* transcribe::run: get_platform_from_url(url), then create_storage_path with
\* the channel and the id of the metadata; fs::create_dir_all succeeds.
CreatePath ==
    /\ pret = None
    /\ pret' = Some(<<StoragePath(get_platform_from_url(UrlText(parg.url)),
                                  parg.channel, parg.video_id)>>)
    /\ UNCHANGED <<parg>>
    /\ UNCHANGED <<dbVars, fsVars, rxVars, txVars, snVars, cmdVars, lres, migVars>>

\* create_storage_path called again with the same arguments: the directories
\* exist and fs::create_dir_all returns Ok.
CreatePathAgain ==
    /\ pret # None /\ Len(Unwrap(pret)) = 1 /\ ~Unwrap(pret)[1].panic
    /\ pret' = Some(Append(Unwrap(pret),
                           StoragePath(get_platform_from_url(UrlText(parg.url)),
                                       parg.channel, parg.video_id)))
    /\ UNCHANGED <<parg>>
    /\ UNCHANGED <<dbVars, fsVars, rxVars, txVars, snVars, cmdVars, lres, migVars>>

InitPath ==
    /\ DbEmpty /\ OneWriter /\ IdleFs /\ IdleRx /\ IdleTx
    /\ IdleSn /\ IdleCmd /\ lres = None /\ IdleMig
    /\ parg \in [url : PathUrls, channel : PathChannels, video_id : PathVideoIds]
    /\ pret = None

NextPath == CreatePath \/ CreatePathAgain

SpecPath == InitPath /\ [][NextPath]_vars

(***************************************************************************)
(* Get command: src/src/commands/get.rs                                    *)
(***************************************************************************)
\* The commands of one history.
MaxCmds == 2

\* The URLs get and transcribe are run on, each with the id the downloader
\* returns in the metadata of the video: the v parameter or the last path
\* segment of a YouTube URL, whatever else the URL holds.
GetUrls ==
    {[text |-> <<"h", "t", "t", "p", "s", ":", "/", "/", "y", "o", "u", "t", "u", "b", "e", ".", "c", "o", "m", "/", "w", "a", "t", "c", "h", "?", "v", "=", "v", "1">>, id |-> "v1"],
     [text |-> <<"h", "t", "t", "p", "s", ":", "/", "/", "y", "o", "u", "t", "u", ".", "b", "e", "/", "v", "2", "?", "t", "=", "3">>, id |-> "v2"],
     [text |-> <<"h", "t", "t", "p", "s", ":", "/", "/", "y", "o", "u", "t", "u", "b", "e", ".", "c", "o", "m", "/", "w", "a", "t", "c", "h", "?", "v", "=", "v", "1", "#", "t", "=", "3">>, id |-> "v1"],
     [text |-> <<"h", "t", "t", "p", "s", ":", "/", "/", "y", "o", "u", "t", "u", "b", "e", ".", "c", "o", "m", "/", "s", "h", "o", "r", "t", "s", "/", "v", "2">>, id |-> "v2"]}

\* url[start..] up to the first occurrence of the character stop, or to the end.
UpTo(url, start, stop) ==
    LET rest == SubSeq(url, start, Len(url))
    IN  IF Find(rest, stop) = 0 THEN rest ELSE SubSeq(rest, 1, Find(rest, stop) - 1)

\* path.split('/').filter(|s| !s.is_empty()).last()
LastSegment(path) ==
    LET segments == SelectSeq(Split(path, <<"/">>), LAMBDA s : s # <<>>)
    IN  IF segments = <<>> THEN None ELSE Some(segments[Len(segments)])

\* extract_video_id(url): for YouTube the v parameter up to "&", else what
\* follows youtu.be/ up to "?"; otherwise the last segment of the path.
extract_video_id(url) ==
    LET url_lower == ToLower(url)
    IN  IF (StrContains(url_lower, <<"y", "o", "u", "t", "u", "b", "e", ".", "c", "o", "m">>) \/ StrContains(url_lower, <<"y", "o", "u", "t", "u", ".", "b", "e">>))
           /\ Find(url, <<"v", "=">>) # 0
        THEN Some(UpTo(url, Find(url, <<"v", "=">>) + 2, <<"&">>))
        ELSE IF StrContains(url_lower, <<"y", "o", "u", "t", "u", ".", "b", "e", "/">>) /\ Find(url, <<"y", "o", "u", "t", "u", ".", "b", "e", "/">>) # 0
        THEN Some(UpTo(url, Find(url, <<"y", "o", "u", "t", "u", ".", "b", "e", "/">>) + 9, <<"?">>))
        ELSE LastSegment(Split(url, <<"?">>)[1])

\* The name a string spells, and a name no directory and no row carries for
\* any other string.
GetName(chars) ==
    IF \E n \in DOMAIN Spelling : Spelling[n] = chars THEN NameOf(chars) ELSE "other"

\* find_transcript_path(url, video_id) on the rows rs and the files tj, md: the
\* path of the row get_transcript_by_id answers, else the first
\* <platform>/<channel>/<video_id> of the directory scan that holds
\* transcript.md (the trees of the model hold no transcript.txt), else None.
\* The value is the set of the answers the order of read_dir allows.
find_transcript_path(rs, tj, md, platform, video_id) ==
    IF IdsOf(rs, video_id) # {}
    THEN {Some(rs[i].path) : i \in IdsOf(rs, video_id)}
    ELSE LET hits == {c \in Children(<<platform>>) :
                         Append(c, video_id) \in Dirs /\ md[Append(c, video_id)]}
         IN  IF hits = {} THEN {None} ELSE {Some(Append(c, video_id)) : c \in hits}

\* The calls of transcribe::run at which a run stops with Err or is stopped,
\* from download_audio on, and "return" for a run that returns Ok.
GetStops == {RunOrder[i] : i \in StepIndex("download_audio")..Len(RunOrder)} \cup {"return"}

\* The call step of the run that stopped at stop has returned Ok.
Passed(step, stop) == stop = "return" \/ StepIndex(step) < StepIndex(stop)

\* The directory and the TranscriptMetadata of a run on url.
GetDir(url) == create_storage_path(UrlPlatform[curl], "chA", url.id)
GetRecord(url) ==
    [video_id |-> url.id, title |-> <<"b">>, channel |-> <<"chA">>,
     platform |-> UrlPlatform[curl], description |-> None, path |-> GetDir(url),
     transcript_text |-> <<"a">>]

\* transcribe::run(url) as one step of a history: the calls of RunOrder before
\* stop have their effect, those from stop on have none.
TranscribeRun(url, stop) ==
    LET d == GetDir(url)
    IN  /\ fsRoot' = TRUE
        /\ fsAu' = IF Passed("move_audio_file", stop) THEN [fsAu EXCEPT ![d] = TRUE] ELSE fsAu
        /\ fsMd' = IF Passed("write_markdown", stop) THEN [fsMd EXCEPT ![d] = TRUE] ELSE fsMd
        /\ fsTj' = IF Passed("write_json", stop) THEN [fsTj EXCEPT ![d] = "ok"] ELSE fsTj
        /\ fsMj' = IF Passed("save_metadata", stop)
                   THEN [fsMj EXCEPT ![d] = [state |-> "ok", id |-> Some(url.id)]]
                   ELSE fsMj
        /\ IF Passed("add_transcript", stop)
           THEN AddTranscriptCall(GetRecord(url), "ok")
           ELSE UNCHANGED dbVars

\* The outcome of a command: what it returned, whether it ran the downloader
\* and the transcription, and the path it printed.
Outcome(end, downloaded, printed) ==
    [end |-> end, downloaded |-> downloaded, printed |-> printed]

\* The history has room for one more command and one more rowid.
GetRoom == Len(parg) < MaxCmds /\ seq < MaxRowid

\* The transcribe command on url.
GetTranscribe(url, stop) ==
    /\ GetRoom
    /\ TranscribeRun(url, stop)
    /\ parg' = Append(parg, [cmd |-> "transcribe", url |-> url])
    /\ pret' = Append(pret, Outcome(IF stop = "return" THEN "Ok" ELSE "Err", TRUE, None))
    /\ UNCHANGED <<rxVars, txVars, snVars, cmdVars, lres, migVars>>

\* get::run(url) where find_transcript_path answers a path: the path is
\* printed and run returns Ok.
GetFound(url) ==
    /\ GetRoom
    /\ extract_video_id(url.text) # None
    /\ \E found \in find_transcript_path(rows, fsTj, fsMd, UrlPlatform[curl],
                                         GetName(Unwrap(extract_video_id(url.text)))) :
        /\ found # None
        /\ pret' = Append(pret, Outcome("Ok", FALSE, found))
    /\ parg' = Append(parg, [cmd |-> "get", url |-> url])
    /\ UNCHANGED <<dbVars, fsVars, rxVars, txVars, snVars, cmdVars, lres, migVars>>

\* get::run(url) where find_transcript_path answers None: transcribe::run(url)?,
\* then find_transcript_path again, and Err(FileNotFound) where it answers None.
GetTranscribing(url, stop) ==
    /\ GetRoom
    /\ extract_video_id(url.text) # None
    /\ None \in find_transcript_path(rows, fsTj, fsMd, UrlPlatform[curl],
                                     GetName(Unwrap(extract_video_id(url.text))))
    /\ TranscribeRun(url, stop)
    /\ \E found \in find_transcript_path(rows', fsTj', fsMd', UrlPlatform[curl],
                                         GetName(Unwrap(extract_video_id(url.text)))) :
        pret' = Append(pret,
                       IF stop # "return" THEN Outcome("Err", TRUE, None)
                       ELSE IF found = None THEN Outcome("FileNotFound", TRUE, None)
                       ELSE Outcome("Ok", TRUE, found))
    /\ parg' = Append(parg, [cmd |-> "get", url |-> url])
    /\ UNCHANGED <<rxVars, txVars, snVars, cmdVars, lres, migVars>>

\* The commands start on an empty index and a data directory without transcripts.
InitGet ==
    /\ DbEmpty /\ OneWriter /\ IdleRx /\ IdleTx /\ IdleSn /\ IdleMig /\ lres = None
    /\ fsTj = [d \in Dirs |-> "none"]
    /\ fsMj = [d \in Dirs |-> [state |-> "none", id |-> None]]
    /\ fsAu = [d \in Dirs |-> FALSE]
    /\ fsMd = [d \in Dirs |-> FALSE]
    /\ fsRoot \in BOOLEAN
    /\ ckey = TRUE /\ curl \in CmdUrls
    /\ cpc = "idle" /\ cend = None /\ cdl = FALSE /\ cmeta = None /\ cdir = None
    /\ parg = <<>> /\ pret = <<>>

NextGet ==
    \/ \E url \in GetUrls, stop \in GetStops : GetTranscribe(url, stop)
    \/ \E url \in GetUrls : GetFound(url)
    \/ \E url \in GetUrls, stop \in GetStops : GetTranscribing(url, stop)

SpecGet == InitGet /\ [][NextGet]_vars

(***************************************************************************)
(* Claims about the Search Index, checked under SpecDb.                    *)
(***************************************************************************)

\* C1: after any sequence of complete upsert and delete operations the
\* full-text shadow is 1:1 with the primary rows: the shadow rowids are
\* exactly the primary rowids. Stated for the states in which no
\* add_transcript is running and none ever stopped half-way.
C1_ShadowOneToOne ==
    (Quiescent /\ ~everCrashed) => DOMAIN fts = DOMAIN rows

\* C2 (state part): at most one row per video ID, and get_transcript_by_id
\* returns the field values of the latest upsert of that video ID.
C2_OneRowLatestWins ==
    \A v \in VideoIds :
        /\ Cardinality(IdsOf(rows, v)) <= 1
        /\ latest[v] # None =>
              /\ get_transcript_by_id(v) # None
              /\ LET r == Unwrap(get_transcript_by_id(v))
                     m == Unwrap(latest[v])
                 IN  /\ r.video_id = m.video_id
                     /\ r.title = m.title
                     /\ r.channel = m.channel
                     /\ r.platform = m.platform
                     /\ r.path = m.path

\* C2 (frame part): the row write of an upsert leaves what get_transcript_by_id
\* returns for every other video ID unchanged.
C2_OthersUnchanged ==
    \A w \in Writers :
        (wpc[w] = "idle" /\ wpc'[w] = "row_written") =>
            \A v \in VideoIds \ {Unwrap(wmeta'[w]).video_id} :
                get_transcript_by_id(v)' = get_transcript_by_id(v)

\* C2: upserting a video ID again leaves exactly one row for it, carrying the
\* second record's field values, and the rows of all other video IDs unchanged;
\* no reachable state has two rows for one video ID.
C2_UpsertReplaces == []C2_OneRowLatestWins /\ [][C2_OthersUnchanged]_vars

\* C2 witness: a video ID was upserted twice with different field values, the
\* second upsert has returned, and a row of another video ID is still there.
C2_Witness ==
    /\ Quiescent
    /\ "v1" \in replaced
    /\ Unwrap(get_transcript_by_id("v1")).title = Unwrap(latest["v1"]).title
    /\ get_transcript_by_id("v2") # None

\* C3: no reachable state has a primary row without its shadow entry (the
\* upsert of one record is atomic over the row and its full-text shadow).
C3_RowHasShadow == \A i \in DOMAIN rows : i \in DOMAIN fts

\* C4: search returns a video only if it is currently indexed and the query
\* matches the text given in its latest upsert, and returns it at most once.
C4_SearchOnlyCurrentText ==
    \A q \in Queries, limit \in Limits :
        \A R \in search_transcripts(q, limit) :
            /\ \A r \in R :
                  /\ IdsOf(rows, r.video_id) # {}
                  /\ latest[r.video_id] # None
                  /\ FtsMatch(FtsOf(Unwrap(latest[r.video_id])), q)
            /\ \A r1, r2 \in R : r1.video_id = r2.video_id => r1 = r2

\* C4 witness: the shadow still holds the text of a replaced or deleted row,
\* a query matching only that text returns nothing, and another query returns
\* a video indexed now.
C4_Witness ==
    /\ Quiescent
    /\ \E i \in DOMAIN fts \ DOMAIN rows :
          /\ FtsMatch(fts[i], <<"b", "a">>)
          /\ search_transcripts(<<"b", "a">>, 20) = {{}}
    /\ \E R \in search_transcripts(<<"a">>, 20) : R # {}

(***************************************************************************)
(* Claims about the Reindexer, checked under SpecReindex.                  *)
(***************************************************************************)

\* A directory the walk reaches: no directory above it holds transcript.json.
Reached(d) == \A n \in 0..(Len(d) - 1) : fsTj[SubSeq(d, 1, n)] = "none"

\* The N valid transcript directories: transcript.json exists and reads.
ValidDirs == {d \in Dirs : fsTj[d] = "ok"}

\* The directories without transcript.json.
InvalidDirs == {d \in Dirs : fsTj[d] = "none"}

\* No add_transcript of the run failed: every failed unit failed in its files.
NoIndexFailure ==
    \A d \in rfailed : fsTj[d] # "ok" \/ fsMj[d].state = "corrupt"

\* C5 as claimed: reindexing N valid transcript directories from an empty index
\* produces exactly N rows. Stated in its most favourable case: no index write
\* fails, no metadata.json is corrupt, no valid directory lies inside another
\* directory holding transcript.json.
C5_ExactlyNRows ==
    (/\ rpc = "done"
     /\ NoIndexFailure
     /\ \A d \in ValidDirs : Reached(d) /\ fsMj[d].state # "corrupt")
    => Cardinality(DOMAIN rows) = Cardinality(ValidDirs)

\* C5 as amended: reindex never ends in an error, and when no index write fails
\* it leaves exactly one row per distinct video ID (metadata id, else directory
\* name) among the reached directories whose transcript.json reads and whose
\* metadata.json is absent or parses.
C5_OneRowPerDistinctId ==
    /\ rpc # "failed"
    /\ (rpc = "done" /\ NoIndexFailure) =>
          LET indexed == {d \in ValidDirs : Reached(d) /\ fsMj[d].state # "corrupt"}
              ids == {IF fsMj[d].id # None THEN Unwrap(fsMj[d].id) ELSE d[Len(d)] :
                        d \in indexed}
          IN  /\ {rows[i].video_id : i \in DOMAIN rows} = ids
              /\ Cardinality(DOMAIN rows) = Cardinality(ids)
              /\ Cardinality(DOMAIN rows) <= Cardinality(ValidDirs)

\* C5 witness: a finished run over a tree with two valid directories of the
\* same video ID and directories without transcript.json left one row.
C5_Witness ==
    /\ rpc = "done"
    /\ NoIndexFailure
    /\ ValidDirs = {<<"yt", "chA", "v1">>, <<"yt", "chB", "v1">>}
    /\ fsMj[<<"yt", "chA", "v1">>].id = Some("v2")
    /\ fsMj[<<"yt", "chB", "v1">>].id = Some("v2")
    /\ InvalidDirs # {}
    /\ Cardinality(DOMAIN rows) = 1

\* The units of work: reached directories holding transcript.json.
Units == {d \in Dirs : fsTj[d] # "none" /\ Reached(d)}

\* C6: a failing unit never aborts the run. The run never ends in an error;
\* the count is the number of units whose reindex_single returned Ok; and once
\* the run is over every unit was attempted, and every unit whose files read
\* and whose index writes did not fail was upserted.
C6_FailureSkipsOneUnit ==
    /\ rpc # "failed"
    /\ rcount = Cardinality(rdone)
    /\ rdone \cap rfailed = {}
    /\ rpc = "done" =>
          /\ rdone \cup rfailed = Units
          /\ \A d \in Units :
                (~ReadsFail(d) /\ d \notin rfailed) =>
                    /\ d \in rdone
                    /\ IdsOf(rows, UnitMeta(d).video_id) # {}
                    /\ \E i \in DOMAIN fts : fts[i] = FtsOf(UnitMeta(d))

\* C6 witness: a finished run in which one unit failed in its files, one in
\* the index, and a third was indexed and counted.
C6_Witness ==
    /\ rpc = "done"
    /\ rcount = 1
    /\ \E d \in rfailed : ReadsFail(d)
    /\ \E d \in rfailed : ~ReadsFail(d)
    /\ rdone # {}

(***************************************************************************)
(* Claims about the Transcription Job Client, checked under SpecTx.        *)
(***************************************************************************)

PhaseRank(phase) ==
    CASE phase = "idle" -> 0
      [] phase = "Uploading" -> 1
      [] phase = "Created" -> 2
      [] phase = "Polling" -> 3
      [] OTHER -> 4

ReqRank(req) ==
    CASE req = "upload" -> 1
      [] req = "create" -> 2
      [] OTHER -> 3

Terminal == {"Completed", "Failed"}

LastReq == IF tlog = <<>> THEN "" ELSE tlog[Len(tlog)].req

\* C7 (state part): in the requests sent so far the upload precedes the job
\* creation, which precedes every poll; none is an upload or a creation once a
\* poll was sent.
C7_RequestsInOrder ==
    /\ \A i, j \in DOMAIN tlog : i < j => ReqRank(tlog[i].req) <= ReqRank(tlog[j].req)
    /\ \A j \in DOMAIN tlog :
          /\ tlog[j].req = "create" => \E i \in 1..(j - 1) : tlog[i].req = "upload"
          /\ tlog[j].req = "poll" => \E i \in 1..(j - 1) : tlog[i].req = "create"

\* C7 (step part): a step never moves to an earlier phase, a request is sent
\* only in the phase it belongs to, and nothing is sent after Completed or Failed.
C7_StepForward ==
    /\ PhaseRank(tphase') >= PhaseRank(tphase)
    /\ tlog' # tlog =>
          /\ Len(tlog') = Len(tlog) + 1
          /\ SubSeq(tlog', 1, Len(tlog)) = tlog
          /\ ReqRank(tlog'[Len(tlog')].req) = PhaseRank(tphase)
    /\ tphase \in Terminal => (tphase' = tphase /\ tlog' = tlog)

\* C7: one call of transcribe moves through Uploading, Created, Polling and
\* then Completed or Failed strictly forward.
C7_PhasesForward == []C7_RequestsInOrder /\ [][C7_StepForward]_vars

\* C7 witness: a call completed after polls that found the job still running.
C7_Witness ==
    /\ tphase = "Completed"
    /\ NumRequests("poll") >= 3
    /\ NumRequests("upload") = 1 /\ NumRequests("create") = 1

\* The response of the last exchange is a failure of its stage.
StageFailed ==
    /\ tresp # None
    /\ LET r == Unwrap(tresp)
       IN  \/ r.net = "err"
           \/ r.status < 200 \/ r.status > 299
           \/ r.json = None
           \/ (LastReq = "poll" /\ Unwrap(r.json).status = "error")

\* C8 (state part): at most one upload and one job creation were sent, however
\* many polls; a failed stage has made the call fail with an error returned.
C8_SingleLifecycle ==
    /\ NumRequests("upload") <= 1
    /\ NumRequests("create") <= 1
    /\ StageFailed => (tphase = "Failed" /\ tresult # None /\ ~Unwrap(tresult).ok)
    /\ tphase = "Failed" => (tresult # None /\ ~Unwrap(tresult).ok)

\* C8 (step part): after the failure nothing is sent and the result stands.
C8_NoRetryAfterFailure ==
    tphase = "Failed" => (tphase' = tphase /\ tlog' = tlog /\ tresult' = tresult)

\* C8: one call issues at most one upload and at most one job creation, and a
\* failure at any stage is returned without re-uploading, re-creating or
\* re-polling.
C8_NoRetry == []C8_SingleLifecycle /\ [][C8_NoRetryAfterFailure]_vars

\* C8 witness: a call failed in a poll after polls that found the job running.
C8_Witness ==
    /\ tphase = "Failed"
    /\ NumRequests("poll") >= 3
    /\ NumRequests("upload") = 1 /\ NumRequests("create") = 1

\* C9: a non-success response to the upload makes transcribe fail with a
\* Transcription error carrying the status and the body (empty when the body
\* could not be read) and no creation or poll is sent; a non-success response
\* to the job creation likewise, and no poll is sent.
C9_NonSuccessIsFatal ==
    (/\ tresp # None
     /\ Unwrap(tresp).net = "ok"
     /\ (Unwrap(tresp).status < 200 \/ Unwrap(tresp).status > 299)
     /\ LastReq \in {"upload", "create"})
    => LET r == Unwrap(tresp)
           body == IF r.text = None THEN "" ELSE Unwrap(r.text)
       IN  /\ tphase = "Failed"
           /\ tresult # None
           /\ ~Unwrap(tresult).ok
           /\ Unwrap(tresult).kind = "Transcription"
           /\ Len(Unwrap(tresult).msg) = 3
           /\ Unwrap(tresult).msg[2] = r.status
           /\ Unwrap(tresult).msg[3] = body
           /\ Unwrap(tresult).msg[1] =
                 (IF LastReq = "upload" THEN "Upload failed"
                  ELSE "Create transcript failed")
           /\ NumRequests("poll") = 0
           /\ LastReq = "upload" => NumRequests("create") = 0

\* C9 witness: the job creation was answered 500 with a body, after an upload
\* that succeeded.
C9_Witness ==
    /\ LastReq = "create"
    /\ tresp # None
    /\ Unwrap(tresp).status = 500
    /\ Unwrap(tresp).text = Some("body")
    /\ tphase = "Failed"

\* The last poll failed as a request: no response, a non-success status, or a
\* body that does not decode.
PollRequestFailed ==
    LET r == Unwrap(tresp)
    IN  r.net = "err" \/ r.status < 200 \/ r.status > 299 \/ r.json = None

\* C10 (state part): after a poll the client has left the loop exactly when the
\* status was completed (success), error (failure with the provider's message
\* or "Unknown error") or the request failed; after any other status it is
\* still polling. Every poll names the job identifier create_transcript got.
C10_LoopExits ==
    /\ \A i \in DOMAIN tlog :
          tlog[i].req = "poll" => tlog[i].arg = Unwrap(transcript_id)
    /\ LastReq = "poll" =>
          IF PollRequestFailed
          THEN tphase = "Failed" /\ ~Unwrap(tresult).ok
          ELSE LET transcript == Unwrap(Unwrap(tresp).json)
               IN  CASE transcript.status = "completed" ->
                          /\ tphase = "Completed"
                          /\ Unwrap(tresult).ok
                     [] transcript.status = "error" ->
                          /\ tphase = "Failed"
                          /\ Unwrap(tresult).kind = "Transcription"
                          /\ Unwrap(tresult).msg =
                                <<IF transcript.error = None THEN "Unknown error"
                                  ELSE Unwrap(transcript.error)>>
                     [] OTHER ->
                          /\ tphase = "Polling"
                          /\ tresult = None

\* C10 (step part): a step taken while polling is another poll of the same job.
C10_PollsSameJob ==
    (tphase = "Polling" /\ tlog' # tlog) =>
        /\ tlog' = Append(tlog, [req |-> "poll", arg |-> Unwrap(transcript_id)])
        /\ transcript_id' = transcript_id

\* C10: the polling loop is left only on completed, on error or on a failed
\* poll request; every other status causes another poll of the same job.
C10_PollLoop == []C10_LoopExits /\ [][C10_PollsSameJob]_vars

\* C10 witness: the last poll was answered with a status outside
\* queued/processing, the client is still in the loop and its next step is
\* another poll.
C10_Witness ==
    /\ tphase = "Polling"
    /\ NumRequests("poll") = 2
    /\ ~PollRequestFailed
    /\ Unwrap(Unwrap(tresp).json).status = "paused"
    /\ tresult = None
    /\ ENABLED (\E resp \in Responses(PollJsons) : PollTranscript(resp))

(***************************************************************************)
(* Claims about the poll loop without a bound, checked under SpecTxLive.   *)
(***************************************************************************)

\* A round of the loop that the provider answers with completed or error.
TerminalAnswer ==
    \E resp \in Responses(PollJsons) :
        /\ resp.net = "ok" /\ resp.status = 200 /\ resp.json # None
        /\ Unwrap(resp.json).status \in {"completed", "error"}
        /\ (PollTranscript(resp) \/ PollTranscriptFurther(resp))

\* C11 (state part): after any number of polls, the call has the outcome of
\* the last answer: completed gives the transcript, error gives a
\* Transcription error, and after any other status the call is still polling,
\* has returned nothing and its next round is enabled, however many rounds
\* went before.
C11_OutcomeMatches ==
    (NumRequests("poll") >= 1 /\ ~PollRequestFailed) =>
        LET transcript == Unwrap(Unwrap(tresp).json)
        IN  CASE transcript.status = "completed" ->
                   /\ tphase = "Completed"
                   /\ Unwrap(tresult).ok
                   /\ Unwrap(Unwrap(tresult).val).id = transcript.id
              [] transcript.status = "error" ->
                   /\ tphase = "Failed"
                   /\ ~Unwrap(tresult).ok
                   /\ Unwrap(tresult).kind = "Transcription"
              [] OTHER ->
                   /\ tphase = "Polling"
                   /\ tresult = None
                   /\ ENABLED PollRound

\* C11 (liveness part): if from some round on the provider answers every poll
\* with completed or error, a call that is polling eventually is Completed or
\* Failed.
C11_EventuallyTerminal ==
    (<>[][PollRound => TerminalAnswer]_vars)
        => ((tphase = "Polling") ~> (tphase \in Terminal))

\* C11: if the provider eventually answers a poll with completed or error,
\* transcribe eventually terminates with the matching outcome; there is no
\* maximum number of polls, and while the answers are non-terminal the call
\* keeps polling and never fails on its own.
C11_PollsUntilTerminal == []C11_OutcomeMatches /\ C11_EventuallyTerminal

\* C11 witness: the call completed in a round that followed more rounds than
\* the history records one by one, all of which found the job still running.
C11_Witness ==
    /\ tphase = "Completed"
    /\ NumRequests("poll") = MaxPolls
    /\ tlog[Len(tlog)].req = "polls"
    /\ Unwrap(Unwrap(tresp).json).status = "completed"
    /\ Unwrap(tresult).ok

(***************************************************************************)
(* Claims about sanitize_filename, checked under SpecSanitize.             *)
(***************************************************************************)

\* C19: sanitize is idempotent for every name and every maximum length:
\* whenever both calls return, sanitize(sanitize(x, maxLen), maxLen) equals
\* sanitize(x, maxLen).
C19_Idempotent == sagain # None => Unwrap(sagain) = Unwrap(sout)

\* C20: for every name and every maximum length the value sanitize returns is
\* a well-formed path segment: not empty, "untitled" whenever the name has only
\* illegal characters, white space or underscores, free of forbidden characters
\* and of white space, neither starting nor ending with "_", and of length at
\* most maxLen.
C20_WellFormed ==
    (sout # None /\ ~Unwrap(sout).panic) =>
        LET r == Unwrap(sout).val
        IN  /\ r # <<>>
            /\ (\A i \in DOMAIN sname : sname[i] \in Forbidden \cup Blank) => r = Untitled
            /\ \A i \in DOMAIN r : r[i] \notin Forbidden /\ r[i] \notin Blank \ {"_"}
            /\ r[1] # "_" /\ r[Len(r)] # "_"
            /\ ByteLen(r) <= smax

(***************************************************************************)
(* Claims about delete, checked under SpecDb.                              *)
(***************************************************************************)

\* A step that is a call of delete_transcript: it leaves a new return value.
DeleteStep == dret' # None /\ dret' # dret

\* C15 (step part): a delete returns true exactly when a row with the video ID
\* existed; it leaves every row of another video ID as it was, adds no row, and
\* creates, modifies and removes no file of the Storage Layer.
C15_DeleteFrame ==
    DeleteStep =>
        LET v == Unwrap(dret').video_id
        IN  /\ Unwrap(dret').value = (\E i \in DOMAIN rows : rows[i].video_id = v)
            /\ \A i \in DOMAIN rows :
                  rows[i].video_id # v => (i \in DOMAIN rows' /\ rows'[i] = rows[i])
            /\ DOMAIN rows' \subseteq DOMAIN rows
            /\ UNCHANGED fsVars

\* C15 (state part): after a delete, get_transcript_by_id of that video ID
\* returns nothing.
C15_DeletedIsGone ==
    dret # None =>
        /\ get_transcript_by_id(Unwrap(dret).video_id) = None
        /\ \A i \in DOMAIN rows : rows[i].video_id # Unwrap(dret).video_id

\* C15: delete(id) returns true exactly when a row with that video ID existed;
\* afterwards get_transcript_by_id(id) returns nothing, every row with another
\* video ID is unchanged, and no Storage Layer file is touched.
C15_Delete == []C15_DeletedIsGone /\ [][C15_DeleteFrame]_vars

\* C15 witness: a delete of an indexed video returned true, the row of the
\* other video is still there, and the files of the deleted video are on disk.
C15_Witness ==
    /\ dret = Some([video_id |-> "v1", value |-> TRUE])
    /\ get_transcript_by_id("v2") # None
    /\ fsTj[<<"yt", "chA", "v1">>] = "ok"
    /\ fsAu[<<"yt", "chA", "v1">>]


(***************************************************************************)
(* Claims about the transcribe command, checked under SpecCmd.             *)
(***************************************************************************)

\* A step of the transcribe command itself.
CmdStep == cmdVars' # cmdVars

\* C12, state part: while the credential is absent the downloader has not been
\* called, no HTTP request has been sent, the job client has not been entered,
\* no storage path has been made, and the only way the command has ended is
\* the API key missing error.
C12_NothingStarted ==
    ~ckey =>
        /\ ~cdl /\ cmeta = None /\ cdir = None
        /\ tlog = <<>> /\ tphase = "idle"
        /\ cend \in {None, Some("ApiKeyMissing")}

\* C12, step part: with the credential absent, the step the command takes ends
\* it with the API key missing error and changes neither the storage tree nor
\* the index nor the job client.
C12_FailsFirst ==
    (~ckey /\ CmdStep) =>
        /\ cend' = Some("ApiKeyMissing")
        /\ UNCHANGED <<fsVars, dbVars, txVars>>

\* C12: when the transcription credential is absent, the transcribe command
\* fails with the API key missing error before the media downloader is called
\* and before any HTTP request is sent, and leaves the Storage Layer and the
\* Search Index unchanged.
C12_MissingKeyFailsBeforeAnyWork == []C12_NothingStarted /\ [][C12_FailsFirst]_vars

\* C12 witness: a run without the credential has ended with the API key
\* missing error on a data directory that still does not exist.
C12_Witness ==
    /\ ~ckey /\ cend = Some("ApiKeyMissing")
    /\ ~cdl /\ tlog = <<>> /\ ~fsRoot /\ DOMAIN rows = {}

\* The four files of a stored transcript exist in d and the two JSON files parse.
AllFilesAt(d) ==
    fsAu[d] /\ fsMd[d] /\ fsTj[d] = "ok" /\ fsMj[d].state = "ok"

\* C13, step part: the step in which the running command writes to the index
\* starts with all four files in storage_path, and the row it writes carries
\* that path and the video id of the metadata.
C13_UpsertAfterFiles ==
    (cend = None /\ dbVars' # dbVars) =>
        /\ cdir # None /\ AllFilesAt(Unwrap(cdir))
        /\ \/ rows' = rows
           \/ \E i \in DOMAIN rows' :
                /\ rows'[i].path = Unwrap(cdir)
                /\ rows'[i].video_id = Unwrap(cmeta).id

\* C13, state part: before any reindex has run, every row of the index is one
\* transcribe wrote, and its path names a directory holding all four files.
C13_RowsReferToStoredTranscripts ==
    rpc = "idle" => \A i \in DOMAIN rows : AllFilesAt(rows[i].path)

\* C13: in the transcribe pipeline the index row is written only after the
\* storage writes: when transcribe upserts a record, audio.mp3, transcript.md,
\* transcript.json and metadata.json all exist in the directory of the record's
\* path, so every row transcribe created refers to a valid transcript directory.
C13_IndexAfterStorage ==
    []C13_RowsReferToStoredTranscripts /\ [][C13_UpsertAfterFiles]_vars

\* C13 witness: the command has returned Ok and its row is in the index, with
\* its shadow entry, before any reindex.
C13_Witness ==
    /\ cend = Some("Ok") /\ rpc = "idle"
    /\ \E i \in DOMAIN rows : rows[i].path = Unwrap(cdir) /\ i \in DOMAIN fts

\* The command stopped, by an error or by being stopped, after it made its
\* storage path and before it called add_transcript.
StoppedMidWrites ==
    /\ cend \notin {None, Some("Ok"), Some("Database")}
    /\ cdir # None

\* C14, nothing rolled back: whatever call of the write sequence has returned
\* Ok, the file it wrote is in storage_path, in every later state.
C14_PrefixKept ==
    cdir # None =>
        LET d == Unwrap(cdir)
        IN  /\ StepIndex(cpc) >= StepIndex("move_audio_file") => fsAu[d]
            /\ StepIndex(cpc) >= StepIndex("write_markdown") => fsMd[d]
            /\ StepIndex(cpc) >= StepIndex("write_json") => fsTj[d] = "ok"
            /\ StepIndex(cpc) >= StepIndex("save_metadata") =>
                    fsMj[d] = MetadataJson(Unwrap(cmeta))

\* C14, nothing rolled back: no step removes a file or replaces a whole one.
C14_NoStepRemoves ==
    \A d \in DOMAIN fsTj :
        /\ fsAu[d] => fsAu'[d]
        /\ fsMd[d] => fsMd'[d]
        /\ fsTj[d] = "ok" => fsTj'[d] = "ok"
        /\ fsMj[d].state = "ok" => fsMj'[d] = fsMj[d]

\* The TranscriptInfo made of the names of the path alone.
DefaultInfo(d) ==
    [path |-> d, title |-> FileName(d), channel |-> d[Len(d) - 1],
     channel_handle |-> None, platform |-> d[Len(d) - 2], duration |-> None,
     upload_date |-> None, url |-> None]

\* C14, listing: a list after the stop returns Ok; it holds no entry for
\* storage_path while transcript.json is missing, the entry of defaults when
\* transcript.json is there without metadata.json, and an entry for every other
\* directory that holds a transcript.json.
C14_ListingDegrades ==
    (StoppedMidWrites /\ lres # None) =>
        LET d == Unwrap(cdir)
            listing == Unwrap(lres)
        IN  /\ listing.ok
            /\ fsTj[d] = "none" => \A i \in DOMAIN listing.results : listing.results[i].path # d
            /\ (fsTj[d] # "none" /\ fsMj[d].state = "none") =>
                    \E i \in DOMAIN listing.results : listing.results[i] = DefaultInfo(d)
            /\ \A u \in UnitDirs :
                    fsTj[u] # "none" => \E i \in DOMAIN listing.results : listing.results[i].path = u

\* The record reindex_single makes of the names of the path alone.
DefaultRow(d) ==
    [video_id |-> FileName(d), title |-> <<FileName(d)>>, channel |-> <<d[2]>>,
     platform |-> d[1], description |-> None, path |-> d]

\* C14, reindex: a reindex after the stop never fails as a run; once it is
\* done it has not touched storage_path while transcript.json is missing, has
\* handled it when transcript.json is there without metadata.json, and has
\* visited every other directory that holds a transcript.json.
C14_ReindexDegrades ==
    StoppedMidWrites =>
        LET d == Unwrap(cdir)
        IN  /\ rpc # "failed"
            /\ rpc = "done" =>
                /\ fsTj[d] = "none" =>
                        /\ d \notin rdone \cup rfailed
                        /\ \A i \in DOMAIN rows : rows[i].path # d
                /\ (fsTj[d] = "ok" /\ fsMj[d].state = "none") =>
                        d \in rdone \cup rfailed
                /\ \A u \in UnitDirs : fsTj[u] # "none" => u \in rdone \cup rfailed

\* C14, reindex: the step that indexes storage_path when transcript.json is
\* there without metadata.json writes the row of defaults.
C14_IndexedWithDefaults ==
    (StoppedMidWrites /\ fsMj[Unwrap(cdir)].state = "none"
        /\ Unwrap(cdir) \in rdone' \ rdone) =>
        \E i \in DOMAIN rows' : rows'[i] = DefaultRow(Unwrap(cdir))

\* C14: if the write sequence of transcribe stops after any prefix of its file
\* writes and before the index upsert, nothing already written is rolled back,
\* and listing and reindexing treat the directory as absent (transcript.json not
\* yet written) or as a degraded transcript with defaulted fields
\* (transcript.json written, metadata.json missing), without aborting the scan
\* or the reindex run.
C14_PartialWritesDegrade ==
    /\ [](C14_PrefixKept /\ C14_ListingDegrades /\ C14_ReindexDegrades)
    /\ [][C14_NoStepRemoves /\ C14_IndexedWithDefaults]_vars

\* C14 witness: the command stopped with transcript.json written and
\* metadata.json missing; a list has run and a reindex has indexed the directory.
C14_Witness ==
    /\ StoppedMidWrites
    /\ fsTj[Unwrap(cdir)] = "ok" /\ fsMj[Unwrap(cdir)].state = "none"
    /\ lres # None /\ (\E i \in DOMAIN Unwrap(lres).results : Unwrap(lres).results[i] = DefaultInfo(Unwrap(cdir)))
    /\ rpc = "done" /\ Unwrap(cdir) \in rdone

(***************************************************************************)
(* Claims about the schema migration, checked under SpecMig.               *)
(***************************************************************************)

\* The last call of get_connection started on a file written by an earlier release.
OpenedOlder == mold # None /\ Unwrap(mold).tcols \in {ChaptersColumns, NoHandleColumns}

\* The last call of get_connection started on a file with the current tables.
OpenedCurrent ==
    mold # None /\ Unwrap(mold).tcols = CurrentColumns /\ Unwrap(mold).fcols = FtsColumns

\* get_connection has returned, Ok or with the error of a statement.
OpenReturned == mpc = "closed" /\ mres \in {Some("Ok"), Some("Err")}

\* C16: opening an index file that has an older schema (an extra chapters
\* column, or a missing channel_handle column) migrates it in place without
\* losing rows: every primary row present before the open is present
\* afterwards with the same id, the same video id and the same value in every
\* column the two schemas share, and after an Ok the table has the current columns.
C16_MigrationKeepsRows ==
    (OpenedOlder /\ OpenReturned) =>
        LET before == Unwrap(mold)
        IN  /\ DOMAIN rows = DOMAIN before.rows
            /\ \A i \in DOMAIN before.rows :
                  \A c \in before.tcols \cap CurrentColumns :
                      /\ c \in DOMAIN rows[i]
                      /\ rows[i][c] = before.rows[i][c]
            /\ mres = Some("Ok") => tcols = CurrentColumns

\* C16 witness: get_connection returned Ok on a file that had the chapters
\* column and two rows; both rows are there under the current columns.
C16_Witness ==
    /\ OpenReturned /\ mres = Some("Ok")
    /\ mold # None /\ Unwrap(mold).tcols = ChaptersColumns
    /\ Cardinality(DOMAIN Unwrap(mold).rows) = 2
    /\ DOMAIN rows = DOMAIN Unwrap(mold).rows
    /\ tcols = CurrentColumns

\* C17: schema migration keeps the full-text shadow in lockstep with the
\* primary rows: after get_connection returned Ok on an older-schema index
\* whose rows each had their shadow entry, every migrated row still has its
\* shadow entry and is returned by every search that matched it before.
C17_MigrationKeepsShadow ==
    (OpenedOlder /\ mpc = "closed" /\ mres = Some("Ok")
        /\ DOMAIN Unwrap(mold).fts = DOMAIN Unwrap(mold).rows) =>
        \A i \in DOMAIN Unwrap(mold).rows :
            /\ i \in DOMAIN fts
            /\ \A phrase \in Queries :
                  FtsMatch(Unwrap(mold).fts[i], phrase) =>
                      \E hit \in SearchHits(phrase) : hit.id = i

\* C18, state part: a get_connection that started on the current tables and
\* ended has left the table definitions, every primary row and every shadow
\* entry as they were, and no statement of it returned an error.
C18_CurrentUnchanged ==
    (OpenedCurrent /\ mpc = "closed" /\ mres # None) =>
        /\ mres # Some("Err")
        /\ tcols = Unwrap(mold).tcols /\ fcols = Unwrap(mold).fcols
        /\ rows = Unwrap(mold).rows /\ fts = Unwrap(mold).fts

\* C18, step part: no statement of a get_connection that started on the
\* current tables changes the file.
C18_NoStatementWrites ==
    (OpenedCurrent /\ mpc # "closed") =>
        UNCHANGED <<rows, fts, seq, tcols, fcols, tnew>>

\* C18: migration is an idempotent no-op on a current schema: opening an index
\* whose schema is already current, any number of times and before any
\* operation, leaves the table definitions, every primary row and every
\* shadow entry unchanged.
C18_CurrentSchemaNoOp == []C18_CurrentUnchanged /\ [][C18_NoStatementWrites]_vars

\* C18 witness: get_connection returned Ok on a file that was already the
\* result of an earlier open, with the current tables, two rows and their
\* shadow entries.
C18_Witness ==
    /\ OpenedCurrent /\ mpc = "closed" /\ mres = Some("Ok")
    /\ Cardinality(DOMAIN rows) = 2 /\ DOMAIN fts = DOMAIN rows
    /\ rows = Unwrap(mold).rows

(***************************************************************************)
(* Claims about the platform of a URL, checked under SpecPlatform.         *)
(***************************************************************************)

\* The bare domain of the URL of the call: its host in lower case, the www.
\* prefix not being part of the host.
BareDomain == ToLower(parg.host)

\* The first label of a domain: its characters before the first dot.
FirstLabel(d) == IF Find(d, <<".">>) = 0 THEN d ELSE SubSeq(d, 1, Find(d, <<".">>) - 1)

\* C21: get_platform_from_url maps every URL whose bare domain (in lower case,
\* without a leading www.) is one of the known platform domains to the tag of
\* that platform, and every URL whose domain is not a known platform domain to
\* the first label of its domain (dropbox.com to dropbox).
C21_KnownTagElseFirstLabel ==
    pret # None =>
        IF \E k \in DOMAIN PLATFORM_MAP : PLATFORM_MAP[k][1] = BareDomain
        THEN \E k \in DOMAIN PLATFORM_MAP :
                PLATFORM_MAP[k][1] = BareDomain /\ Unwrap(pret) = PLATFORM_MAP[k][2]
        ELSE Unwrap(pret) = FirstLabel(BareDomain)

\* C22: get_platform_from_url is total: for every string, the empty one and
\* those without a domain included, it returns a tag that is not empty and is
\* in lower case, and the tag is "unknown" when the domain has no first label.
C22_NonEmptyLowercaseTag ==
    pret # None =>
        /\ Unwrap(pret) # <<>>
        /\ Unwrap(pret) = ToLower(Unwrap(pret))
        /\ FirstLabel(BareDomain) = <<>> => Unwrap(pret) = <<"u", "n", "k", "n", "o", "w", "n">>

(***************************************************************************)
(* Claims about the listing of the Storage Layer, checked under SpecList.  *)
(***************************************************************************)
\* The directory the walk of a listing starts in, and whether it is there.
WalkRoot(platform) == IF platform = None THEN Root ELSE <<Unwrap(platform)>>
Walked(platform) == fsRoot /\ WalkRoot(platform) \in Dirs

\* d lies in the directory w or is w.
Within(d, w) == Len(d) >= Len(w) /\ SubSeq(d, 1, Len(w)) = w

\* d holds transcript.json and no directory above it inside the walk does.
TopmostUnit(d, platform) ==
    /\ Walked(platform)
    /\ Within(d, WalkRoot(platform))
    /\ fsTj[d] # "none"
    /\ \A a \in Dirs :
          (a # d /\ Within(d, a) /\ Within(a, WalkRoot(platform))) => fsTj[a] = "none"

\* The entries of a listing for the directory d.
EntriesOf(listing, d) == {i \in DOMAIN listing.results : listing.results[i].path = d}

\* A listing without channel or handle filter has been made.
ListedUnfiltered == lres # None /\ parg.channel = None /\ parg.handle = None

\* C23: a listing returns Ok, with exactly one entry for every directory in
\* the walk that holds transcript.json under no other such directory, and no
\* entry for any other directory; where metadata.json is missing, unreadable
\* or corrupt the entry carries the title, channel and platform of the
\* directory names.
C23_OneEntryPerTopmostUnit ==
    ListedUnfiltered =>
        LET listing == Unwrap(lres)
        IN  /\ listing.ok
            /\ \A d \in Dirs :
                  /\ Cardinality(EntriesOf(listing, d))
                        = IF TopmostUnit(d, parg.platform) THEN 1 ELSE 0
                  /\ (TopmostUnit(d, parg.platform) /\ fsMj[d].state # "ok") =>
                        \A i \in EntriesOf(listing, d) :
                            /\ listing.results[i].title = FileName(d)
                            /\ listing.results[i].channel = AncestorName(d, 1)
                            /\ listing.results[i].platform = AncestorName(d, 2)
            /\ \A i \in DOMAIN listing.results : listing.results[i].path \in Dirs

\* C23, witness: a listing of a tree in which a directory holding
\* transcript.json lies under another one, with a corrupt and a missing
\* metadata.json among the directories listed.
C23_Witness ==
    /\ ListedUnfiltered /\ parg.platform = None
    /\ fsTj[<<"yt", "chA">>] = "ok" /\ fsTj[<<"yt", "chA", "v1">>] = "ok"
    /\ fsMj[<<"yt", "chA">>].state = "corrupt"
    /\ fsTj[<<"yt", "chB", "v1">>] = "corrupt" /\ fsMj[<<"yt", "chB", "v1">>].state = "none"
    /\ Len(Unwrap(lres).results) = 2

(***************************************************************************)
(* Claims about the listings with filters, checked under SpecIdx and       *)
(* SpecList.                                                               *)
(***************************************************************************)
\* name contains filter as a literal substring, whatever the case of either.
ContainsIgnoringCase(name, filter) ==
    StrContains(ToLower(Spelling[name]), ToLower(filter))

\* A record satisfies the filters given: the platform exactly, the channel
\* and the handle by literal substring in any case.
MatchesFilters(t, args) ==
    /\ args.platform # None => t.platform = Unwrap(args.platform)
    /\ args.channel # None => ContainsIgnoringCase(t.channel, Unwrap(args.channel))
    /\ args.handle # None =>
          /\ t.channel_handle # None
          /\ ContainsIgnoringCase(Unwrap(t.channel_handle), Unwrap(args.handle))

\* C24: every record the Search Index listing returns satisfies all the
\* filters given: platform equal to the filter, channel name and handle
\* containing their filter as a literal substring in any case.
C24_IndexListingMatches ==
    pret # None =>
        \A k \in DOMAIN Unwrap(pret) : MatchesFilters(Unwrap(pret)[k], parg)

\* C24, Storage Layer: every entry list_transcripts returns satisfies all the
\* filters given.
C24_StorageListingMatches ==
    lres # None =>
        \A k \in DOMAIN Unwrap(lres).results :
            MatchesFilters(Unwrap(lres).results[k], parg)

\* C24, Storage Layer without the platform: every entry returned satisfies the
\* channel and handle filters given.
C24_StorageChannelHandleMatch ==
    lres # None =>
        \A k \in DOMAIN Unwrap(lres).results :
            MatchesFilters(Unwrap(lres).results[k], [parg EXCEPT !.platform = None])

\* C24, Search Index without wildcard characters in the filters: every record
\* returned satisfies all the filters given.
C24_IndexListingMatchesPlainFilters ==
    (pret # None /\ parg.channel # Some(<<"h", "_">>)) =>
        \A k \in DOMAIN Unwrap(pret) : MatchesFilters(Unwrap(pret)[k], parg)

\* C25: the Search Index listing returns at most limit rows, and of two rows
\* it returns the one whose video was upserted later (the one with the later
\* rowid) is never listed after the other.
C25_NewestUpsertFirst ==
    pret # None =>
        LET listed == Unwrap(pret)
        IN  /\ parg.limit >= 0 => Len(listed) <= parg.limit
            /\ \A i, j \in DOMAIN listed : i < j => listed[i].id > listed[j].id

\* C25, by the stored second: the listing returns at most limit rows, and a
\* row is never listed after a row upserted in an earlier second.
C25_LaterSecondFirst ==
    pret # None =>
        LET listed == Unwrap(pret)
        IN  /\ parg.limit >= 0 => Len(listed) <= parg.limit
            /\ \A i, j \in DOMAIN listed :
                  i < j => rows[listed[i].id].transcribed_at >= rows[listed[j].id].transcribed_at

(***************************************************************************)
(* Claims about reading a transcript, checked under SpecRead.              *)
(***************************************************************************)
\* get_transcript has returned for a transcript directory.
ReadDir == pret # None /\ parg.path = "dir"

\* The prose the directory offers: of transcript.md when it exists, otherwise
\* of transcript.txt when that exists.
ProseOffered(a) ==
    IF a.md # "absent" THEN Some(ProseOf("md"))
    ELSE IF a.txt # "absent" THEN Some(ProseOf("txt")) ELSE None

\* C26 as stated: on a directory the call returns the prose of transcript.md
\* when it exists and otherwise of transcript.txt, returns the structured data
\* exactly when transcript.json exists, and fails with FileNotFound if and only
\* if no prose file and no transcript.json exists.
C26_ReadReturnsWhatExists ==
    ReadDir =>
        LET a == parg
            r == Unwrap(pret)
            nothing == a.md = "absent" /\ a.txt = "absent" /\ a.json = "absent"
        IN  /\ (~r.ok /\ r.error = "FileNotFound") <=> nothing
            /\ ~nothing =>
                  /\ r.ok
                  /\ r.text = ProseOffered(a)
                  /\ r.structured # None <=> a.json # "absent"

\* The file get_transcript takes the prose from is there and fails to read, or
\* transcript.json is there and fails to read or to parse.
ReadBreaks(a) ==
    \/ a.md = "unreadable"
    \/ a.md = "absent" /\ a.txt = "unreadable"
    \/ a.json \in {"unreadable", "corrupt"}

\* C26: on a directory in which the files that exist read and parse, the call
\* returns the prose of transcript.md when it exists and otherwise of
\* transcript.txt, and the structured data exactly when transcript.json
\* exists; it fails with FileNotFound if and only if no prose file and no
\* transcript.json exists, and with an IO or JSON error, never FileNotFound,
\* when the prose file it chose or transcript.json fails to read or parse.
C26_ReadReturnsWhatReads ==
    ReadDir =>
        LET a == parg
            r == Unwrap(pret)
            nothing == a.md = "absent" /\ a.txt = "absent" /\ a.json = "absent"
        IN  /\ (~r.ok /\ r.error = "FileNotFound") <=> nothing
            /\ ReadBreaks(a) <=> (~r.ok /\ r.error \in {"Io", "Json"})
            /\ (~nothing /\ ~ReadBreaks(a)) =>
                  /\ r.ok
                  /\ r.text = ProseOffered(a)
                  /\ r.structured = IF a.json = "absent" THEN None ELSE Some(StructuredOf)

\* C26, witness: a directory holding a readable transcript.md and
\* transcript.txt and no transcript.json has been read, and the prose of
\* transcript.md came back without structured data.
C26_Witness ==
    /\ ReadDir
    /\ parg.md = "ok" /\ parg.txt = "ok" /\ parg.json = "absent"
    /\ Unwrap(pret) = ReadOk(Some(ProseOf("md")), None)

(***************************************************************************)
(* Claims about the snippet of a search result, checked under SpecSearch.  *)
(***************************************************************************)
\* The phrase between the highlight markers.
Highlighted(phrase) == <<">>> ">> \o phrase \o <<" <<<">>

\* The rows whose transcript text holds the phrase.
TextMatches(phrase) ==
    {i \in DOMAIN rows \cap DOMAIN fts : Contains(fts[i].transcript_text, phrase)}

\* A search has returned whose limit left no hit out.
SearchedAll ==
    pret # None /\ Cardinality(SearchHits(parg.query)) <= parg.limit

\* C27: a search returns every indexed record whose transcript text holds
\* the query, each with a snippet in which the query stands between the
\* highlight markers.
C27_TextMatchHighlighted ==
    SearchedAll =>
        \A i \in TextMatches(parg.query) :
            \E r \in Unwrap(pret) :
                /\ r.id = i
                /\ r.snippet # None
                /\ Contains(Unwrap(r.snippet), Highlighted(parg.query))

\* C27, the snippet the code returns: every record whose transcript text
\* holds the query is returned, and its snippet is the description of the
\* record, holding the highlighted query exactly when the description does.
C27_SnippetIsDescription ==
    SearchedAll =>
        \A i \in TextMatches(parg.query) :
            \E r \in Unwrap(pret) :
                /\ r.id = i
                /\ r.snippet = Some(Highlight(fts[i].description, parg.query))
                /\ Contains(Unwrap(r.snippet), Highlighted(parg.query))
                      <=> Contains(fts[i].description, parg.query)

(***************************************************************************)
(* Claims about the formatters, checked under SpecFormat.                  *)
(***************************************************************************)
\* The positions at which a maximal run of utterances of one speaker starts.
RunStarts(us) == {i \in 1..Len(us) : i = 1 \/ us[i].speaker # us[i - 1].speaker}

\* The start of the k-th run and the number of utterances in the run from i.
NthStart(us, k) ==
    CHOOSE i \in RunStarts(us) : Cardinality({j \in RunStarts(us) : j <= i}) = k
RunLength(us, i) ==
    CHOOSE n \in 1..(Len(us) - i + 1) :
        /\ \A k \in i..(i + n - 1) : us[k].speaker = us[i].speaker
        /\ i + n > Len(us) \/ us[i + n].speaker # us[i].speaker

\* text is the words of the n utterances from the i-th on, in order, with
\* one space between two of them (every utterance of the model is one word).
IsRunText(text, us, i, n) ==
    /\ Len(text) = 2 * n - 1
    /\ \A k \in 1..n : text[2 * k - 1] = us[i + k - 1].text[1]
    /\ \A k \in 1..(n - 1) : text[2 * k] = " "

\* Both formatters have run on a non-empty utterance sequence.
Formatted == pret # None /\ parg.utterances # <<>>

\* C28: for a non-empty utterance sequence each formatter emits one
\* paragraph per maximal run of consecutive utterances of one speaker, in
\* order, labelled with the run's speaker and holding the run's texts joined
\* by single spaces; adjacent paragraphs have different speakers, and the two
\* presentations have the same paragraphs.
C28_OneParagraphPerRun ==
    Formatted =>
        LET us == parg.utterances
            plain == Unwrap(pret).plain.paragraphs
            markdown == Unwrap(pret).markdown.paragraphs
            n == Cardinality(RunStarts(us))
        IN  /\ Len(plain) = n /\ Len(markdown) = n
            /\ \A k \in 1..n :
                  LET i == NthStart(us, k)
                  IN  /\ plain[k][2] = us[i].speaker
                      /\ markdown[k][2] = us[i].speaker
                      /\ IsRunText(plain[k][4], us, i, RunLength(us, i))
                      /\ markdown[k][6] = plain[k][4]
            /\ \A k \in 1..(n - 1) :
                  plain[k][2] # plain[k + 1][2] /\ markdown[k][2] # markdown[k + 1][2]

\* C28, witness: two utterances of speaker A followed by one of speaker B
\* have been formatted into two paragraphs by both formatters.
C28_Witness ==
    /\ Formatted
    /\ Len(parg.utterances) = 3
    /\ parg.utterances[1].speaker = "A" /\ parg.utterances[2].speaker = "A"
    /\ parg.utterances[3].speaker = "B"
    /\ parg.utterances[1].text = <<"hi">> /\ parg.utterances[2].text = <<"there">>
    /\ Len(Unwrap(pret).plain.paragraphs) = 2
    /\ Unwrap(pret).plain.paragraphs[1] = PlainParagraph("A", <<"hi", " ", "there">>)
    /\ Len(Unwrap(pret).markdown.paragraphs) = 2

\* The number a sequence of decimal digits writes.
RECURSIVE DecimalValue(_)
DecimalValue(digits) ==
    IF digits = <<>> THEN 0
    ELSE 10 * DecimalValue(SubSeq(digits, 1, Len(digits) - 1))
         + (CHOOSE d \in 0..9 : Digit[d + 1] = digits[Len(digits)])

\* The fields of a timestamp are made of two digits or more.
WellFormedFields(fields) ==
    \A f \in DOMAIN fields :
        /\ Len(fields[f]) >= 2
        /\ \A c \in DOMAIN fields[f] : \E d \in DOMAIN Digit : Digit[d] = fields[f][c]

\* A timestamp writes the whole seconds of an offset: as MM:SS below one
\* hour, as HH:MM:SS with minutes and seconds in 00..59 from one hour on.
IsTimestampOf(timestamp, ms) ==
    LET fields == Split(timestamp, <<":">>)
        value == [f \in DOMAIN fields |-> DecimalValue(fields[f])]
    IN  /\ WellFormedFields(fields)
        /\ IF ms < 3600000
           THEN /\ Len(fields) = 2
                /\ Len(fields[1]) = 2 /\ Len(fields[2]) = 2
                /\ value[2] \in 0..59
                /\ value[1] * 60 + value[2] = ms \div 1000
           ELSE /\ Len(fields) = 3
                /\ Len(fields[2]) = 2 /\ Len(fields[3]) = 2
                /\ value[2] \in 0..59 /\ value[3] \in 0..59
                /\ value[1] * 3600 + value[2] * 60 + value[3] = ms \div 1000

\* C29: in the markdown presentation the timestamp of each paragraph writes
\* the start offset of the first utterance of its batch, as MM:SS below one
\* hour and as HH:MM:SS with minutes and seconds in 00..59 from one hour on.
C29_TimestampOfFirstUtterance ==
    Formatted =>
        LET us == parg.utterances
            markdown == Unwrap(pret).markdown.paragraphs
        IN  /\ Len(markdown) = Cardinality(RunStarts(us))
            /\ \A k \in DOMAIN markdown :
                  IsTimestampOf(markdown[k][4], us[NthStart(us, k)].start)

\* C29, witness: a batch of two utterances whose first starts past one hour
\* and whose second carries another offset has been formatted with the
\* timestamp 01:01:01, after a batch stamped 59:59.
C29_Witness ==
    /\ Formatted
    /\ Len(parg.utterances) = 3
    /\ parg.utterances[1].speaker = "B" /\ parg.utterances[1].start = 3599999
    /\ parg.utterances[2].speaker = "A" /\ parg.utterances[2].start = 3661000
    /\ parg.utterances[3].speaker = "A" /\ parg.utterances[3].start = 0
    /\ Unwrap(pret).markdown.paragraphs[1][4] = <<"5", "9", ":", "5", "9">>
    /\ Unwrap(pret).markdown.paragraphs[2][4] = <<"0", "1", ":", "0", "1", ":", "0", "1">>

(***************************************************************************)
(* Claims about two writers of one video id, checked under SpecRace.       *)
(***************************************************************************)
\* C30: once the writers have finished, the index holds exactly one row for
\* every video id written, that row carries the fields of the writer whose
\* row write came last, and the shadow entry under the rowid of that row
\* carries the text of the same writer.
C30_LastRowWriterWins ==
    Quiescent =>
        \A v \in VideoIds :
            latest[v] # None =>
                /\ Cardinality(IdsOf(rows, v)) = 1
                /\ \A i \in IdsOf(rows, v) :
                      /\ rows[i] = RowOf(Unwrap(latest[v]))
                      /\ i \in DOMAIN fts
                      /\ fts[i] = FtsOf(Unwrap(latest[v]))

\* C30, interleaving: both writers stand between their two statements on the
\* same video id with different fields.
C30_BothBetweenStatements ==
    /\ wpc[1] = "row_written" /\ wpc[2] = "row_written"
    /\ Unwrap(wmeta[1]).video_id = Unwrap(wmeta[2]).video_id
    /\ FtsOf(Unwrap(wmeta[1])) # FtsOf(Unwrap(wmeta[2]))

\* C30, witness: both writers have finished an upsert of the same video id
\* with different titles and texts; the row is that of the second rowid, and
\* the shadow entry the other writer wrote last lies under the rowid replaced.
C30_Witness ==
    /\ Quiescent
    /\ wmeta[1] # None /\ wmeta[2] # None
    /\ Unwrap(wmeta[1]).video_id = Unwrap(wmeta[2]).video_id
    /\ Unwrap(wmeta[1]).title # Unwrap(wmeta[2]).title
    /\ Unwrap(wmeta[1]).transcript_text # Unwrap(wmeta[2]).transcript_text
    /\ wid[1] < wid[2]
    /\ wid[2] \in DOMAIN rows /\ wid[1] \notin DOMAIN rows
    /\ fts[wid[1]] = FtsOf(Unwrap(wmeta[1]))
    /\ fts[wid[2]] = FtsOf(Unwrap(wmeta[2]))

(***************************************************************************)
(* Claims about the platform and channel of reindexed units, checked under *)
(* SpecReindex.                                                            *)
(***************************************************************************)
\* The segments of a unit's path above its own directory.
SegmentsAbove(d) == SubSeq(d, 1, Len(d) - 1)

\* The platform and channel the claim gives a unit: segment 0 and segment 1
\* where they lie above the unit's own directory, the defaults otherwise, and
\* the channel of metadata.json before that of the path.
PlatformByPosition(d) ==
    IF Len(SegmentsAbove(d)) >= 1 THEN SegmentsAbove(d)[1] ELSE "unknown"
ChannelByPosition(d) ==
    IF MetaGet(fsMj[d], "channel") # None THEN Unwrap(MetaGet(fsMj[d], "channel"))
    ELSE IF Len(SegmentsAbove(d)) >= 2 THEN SegmentsAbove(d)[2] ELSE "Unknown"

\* The step indexes the unit d: the row written carries path d.
IndexesUnit(d) ==
    /\ d \in rdone' \ rdone
    /\ \E i \in DOMAIN rows' \ DOMAIN rows : rows'[i].path = d

\* C31: the row reindex writes for a unit carries as platform segment 0 of its
\* path and as channel the metadata channel, else segment 1; a segment missing
\* above the unit's own directory is replaced by "unknown" or "Unknown" and
\* never by the name of the unit's own directory.
C31_PlatformChannelByPosition ==
    [][\A d \in UnitDirs :
          IndexesUnit(d) =>
              \A i \in DOMAIN rows' \ DOMAIN rows :
                  /\ rows'[i].platform = PlatformByPosition(d)
                  /\ rows'[i].channel = <<ChannelByPosition(d)>>]_vars

\* C31, units at <platform>/<channel>/<id>: the row reindex writes carries
\* segment 0 as platform and the metadata channel, else segment 1, as channel.
C31_FullDepthUnits ==
    [][\A d \in UnitDirs :
          (IndexesUnit(d) /\ Len(d) = 3) =>
              \A i \in DOMAIN rows' \ DOMAIN rows :
                  /\ rows'[i].platform = d[1]
                  /\ rows'[i].channel = <<ChannelByPosition(d)>>]_vars

(***************************************************************************)
(* Claims about reindexing what transcribe stored, checked under SpecCmd.  *)
(***************************************************************************)
\* The run has returned Ok: its directory and its index row are written.
RunSucceeded == cend = Some("Ok")

\* The video id of the run is carried by its directory only.
OnlyDirectoryOfId ==
    \A u \in UnitDirs :
        (fsTj[u] # "none" /\ u # Unwrap(cdir)) => UnitMeta(u).video_id # CmdRecord.video_id

\* What get_transcript_by_id and the listing report of a row, its rowid aside.
Reported(row) ==
    [video_id |-> row.video_id, title |-> row.title, channel |-> row.channel,
     platform |-> row.platform, path |-> row.path]

\* The reindex run after the command has ended, every unit indexed.
ReindexedAfterRun == RunSucceeded /\ rpc = "done" /\ rfailed = {}

\* C32, the upsert: the step of a reindex that indexes the directory a
\* successful run wrote upserts the row the run wrote.
C32_UpsertsTheRowOfTheRun ==
    (RunSucceeded /\ Unwrap(cdir) \in rdone' \ rdone) =>
        \E i \in DOMAIN rows' \ DOMAIN rows : rows'[i] = RowOf(CmdRecord)

\* C32, the number of rows: a reindex step that indexes a directory whose
\* video id is in the index leaves the number of rows as it is.
C32_KeepsRowCount ==
    \A u \in UnitDirs :
        (u \in rdone' \ rdone /\ IdsOf(rows, UnitMeta(u).video_id) # {}) =>
            Cardinality(DOMAIN rows') = Cardinality(DOMAIN rows)

C32_ReindexKeepsReportOfSingleDirectory ==
    (ReindexedAfterRun /\ OnlyDirectoryOfId) =>
        /\ Cardinality(IdsOf(rows, CmdRecord.video_id)) = 1
        /\ \A i \in IdsOf(rows, CmdRecord.video_id) : Reported(rows[i]) = Reported(RowOf(CmdRecord))

IndexPaths == {rows[i].path : i \in DOMAIN rows}

\* The directory paths of an unfiltered list_transcripts over the tree.
ListingPaths ==
    LET listing == list_transcripts(None, None, None)
    IN  {listing.results[i].path : i \in DOMAIN listing.results}

\* The reindex run has returned.
ReindexDone == rpc = "done"

\* Every add_transcript of the run returned Ok: the units that failed are
\* those whose files did not read.
NoIndexWriteFailed == \A d \in rfailed : ReadsFail(d)

\* The files of every listed directory read and parse, and no two listed
\* directories carry the same video id.
ReadableDistinctUnits ==
    /\ \A d \in ListingPaths : ~ReadsFail(d)
    /\ \A d, e \in ListingPaths : UnitMeta(d).video_id = UnitMeta(e).video_id => d = e

\* C33 as stated: after a reindex from an empty index in which no index write
\* failed, the paths in index rows are the paths of the unfiltered listing.
C33_IndexPathsEqualListing ==
    (ReindexDone /\ NoIndexWriteFailed) => IndexPaths = ListingPaths

\* C33: after a reindex from an empty index, every path in an index row is a
\* path of the unfiltered listing; a listed directory whose files read has,
\* when no index write failed, a row of its video id whose path is a listed
\* directory carrying that id; the two sets of paths are equal when the files
\* of every listed directory read and the video ids are pairwise distinct.
C33_IndexMirrorsReadableDistinctUnits ==
    ReindexDone =>
        /\ IndexPaths \subseteq ListingPaths
        /\ NoIndexWriteFailed =>
            /\ \A d \in ListingPaths : ~ReadsFail(d) =>
                \E i \in DOMAIN rows :
                    /\ rows[i].video_id = UnitMeta(d).video_id
                    /\ rows[i].path \in ListingPaths
                    /\ UnitMeta(rows[i].path).video_id = UnitMeta(d).video_id
            /\ \A d \in ListingPaths : ReadsFail(d) => d \notin IndexPaths
            /\ ReadableDistinctUnits => IndexPaths = ListingPaths

\* C33, witness: a reindex has returned on a tree with two listed directories,
\* one without metadata.json, all readable and with distinct ids, and the
\* index holds the paths of both.
C33_Witness ==
    /\ ReindexDone /\ NoIndexWriteFailed /\ ReadableDistinctUnits
    /\ Cardinality(ListingPaths) = 2
    /\ \E d \in ListingPaths : fsMj[d].state = "none"
    /\ IndexPaths = ListingPaths

(***************************************************************************)
(* Claims about the path of a video, checked under SpecPath.               *)
(***************************************************************************)
\* The calls of create_storage_path made so far.
PathCalls == IF pret = None THEN <<>> ELSE Unwrap(pret)

\* The directory lies three levels below transcripts_dir(), at
\* <platform>/<channel>/<id>.
ThreeLevelsInside(path) ==
    /\ Resolve(AtRoot, path).up = 0
    /\ Resolve(AtRoot, path).down = path

\* C34: every call of create_storage_path returns a path that lies inside the
\* transcripts root, three levels below it at <platform>/<channel>/<id>, and a
\* second call with the same arguments returns the same path.
C34_ThreeLevelsInsideRoot ==
    /\ \A k \in DOMAIN PathCalls :
        ~PathCalls[k].panic /\ ThreeLevelsInside(PathCalls[k].val)
    /\ Len(PathCalls) = 2 => PathCalls[1] = PathCalls[2]

\* C34, the directory above the root: a call has returned a path that names
\* the parent of the transcripts root.
C34_Escapes ==
    \E k \in DOMAIN PathCalls :
        ~PathCalls[k].panic /\ Resolve(AtRoot, PathCalls[k].val).up > 0

(***************************************************************************)
(* Claims about a transcribe run that fails before it stores anything,     *)
(* checked under SpecCmd.                                                  *)
(***************************************************************************)
\* run has returned the Err of download_audio or of assemblyai.transcribe.
DownloadOrTranscriptionFailed ==
    /\ cend # None /\ cend # Some("Ok") /\ cend # Some("Killed")
    /\ cpc \in {"ensure_directories", "AssemblyAI::new"}

\* A step of a run that has not created its directory.
StepBeforeStoragePath == cend = None /\ cdir = None /\ cdir' = None

\* C35, the steps: a step of the run before its directory is created writes no
\* file under the transcripts root and no index row.
C35_NoWriteBeforeStoragePath ==
    StepBeforeStoragePath =>
        /\ UNCHANGED <<fsTj, fsMj, fsAu, fsMd>>
        /\ UNCHANGED dbVars

\* C35, the end: a run that ends with the error of the download or of the
\* transcription has created no directory, the index holds no row until
\* another command runs, and the listing of a store without transcripts is
\* empty with the transcripts root as without it.
C35_FailedBeforeStoragePath ==
    DownloadOrTranscriptionFailed =>
        /\ cdir = None
        /\ rpc = "idle" => DOMAIN rows = {}
        /\ (\A d \in Dirs : fsTj[d] = "none") =>
                list_transcripts(None, None, None) = Listed(<<>>)

\* C35: if the download or the transcription job fails, the transcribe command
\* ends with an error having created no transcript directory, written no
\* transcript, metadata or audio file under the transcripts root and written
\* no index row: the files, the listing and the index are as before.
C35_FailureLeavesStoreAndIndex ==
    /\ []C35_FailedBeforeStoragePath
    /\ [][C35_NoWriteBeforeStoragePath]_vars

\* C35, witness: the download succeeded and the transcription job failed on a
\* data directory that holds no transcript; the run has ended with the error.
C35_Witness ==
    /\ DownloadOrTranscriptionFailed
    /\ cpc = "AssemblyAI::new" /\ cmeta # None
    /\ tresult # None /\ ~Unwrap(tresult).ok
    /\ \A d \in Dirs : fsTj[d] = "none" /\ ~fsAu[d]
    /\ DOMAIN rows = {}

(***************************************************************************)
(* Claims about the get command, checked under SpecGet.                    *)
(***************************************************************************)
\* Command i of the history succeeded on the URL of command j, a later get.
LaterGet(i, j) ==
    /\ i < j
    /\ parg[i].url = parg[j].url
    /\ pret[i].end = "Ok"
    /\ parg[j].cmd = "get"

\* C36: once get(url) or transcribe(url) has succeeded, every later get(url)
\* prints the stored path without running the downloader and the
\* transcription again.
C36_LaterGetDoesNotTranscribe ==
    \A i, j \in DOMAIN parg :
        LaterGet(i, j) => ~pret[j].downloaded /\ pret[j].printed # None

\* C36, the URLs whose id get reads as the downloader gives it: for those a
\* later get prints the stored path without transcribing again.
C36_LaterGetOfMatchingId ==
    \A i, j \in DOMAIN parg :
        (LaterGet(i, j) /\ extract_video_id(parg[j].url.text) = Some(Spelling[parg[j].url.id]))
            => ~pret[j].downloaded /\ pret[j].printed # None

\* C36, the run repeated: a get has run the downloader again for a URL whose
\* transcribe command had succeeded.
C36_TranscribedAgain ==
    \E i, j \in DOMAIN parg :
        LaterGet(i, j) /\ parg[i].cmd = "transcribe" /\ pret[j].downloaded

\* The step is a get command that printed a path.
GetPrinted ==
    /\ Len(pret') = Len(pret) + 1
    /\ parg'[Len(parg')].cmd = "get"
    /\ pret'[Len(pret')].printed # None

\* C37: every path the get command prints as an existing transcript names a
\* directory that holds transcript.json when the command returns, whether the
\* index or the directory scan found it, also after a transcribe run that
\* stopped between its file writes.
C37_PrintedPathHoldsTranscriptJson ==
    [][GetPrinted => fsTj'[Unwrap(pret'[Len(pret')].printed)] # "none"]_vars

\* C37, the path of a row: a path get prints out of the index names a
\* directory that holds transcript.json.
C37_IndexPathHoldsTranscriptJson ==
    [][(GetPrinted /\ \E i \in DOMAIN rows' : rows'[i].path = Unwrap(pret'[Len(pret')].printed))
        => fsTj'[Unwrap(pret'[Len(pret')].printed)] # "none"]_vars

\* C37, the directory without transcript.json: a get has printed the path of a
\* directory that holds transcript.md and no transcript.json.
C37_PrintedWithoutTranscriptJson ==
    \E j \in DOMAIN pret :
        /\ parg[j].cmd = "get" /\ pret[j].printed # None
        /\ fsTj[Unwrap(pret[j].printed)] = "none"
        /\ fsMd[Unwrap(pret[j].printed)]

(***************************************************************************)
(* Claims about a sanitize_filename that returns, checked under            *)
(* SpecSanitize.                                                           *)
(***************************************************************************)
\* C38: sanitize_filename returns a value for every name and every maximum
\* length, also where the cut to the maximum length falls inside a character
\* of more than one byte.
C38_SanitizeReturnsAValue ==
    /\ sout # None => ~Unwrap(sout).panic
    /\ sagain # None => ~Unwrap(sagain).panic

\* C38, the cut inside a character: a call on a name longer than the maximum
\* length, whose byte at the maximum length lies inside a two-byte character,
\* has panicked.
C38_PanickedInsideCharacter ==
    /\ sout # None /\ Unwrap(sout).panic
    /\ \E i \in DOMAIN sname : sname[i] \in TwoByteChars
    /\ ByteLen(sname) > smax
=============================================================================
